---- MODULE Spec2Model ----
(***************************************************************************)
(* HP transaction automation of actual-budget-system.                      *)
(*                                                                         *)
(* The processor (hp-processor.js) is a short-lived node process: every    *)
(* run constructs an HPTransactionProcessor (which loads /data/hp-state    *)
(* .json), runs processAllTransactions and exits.  Runs are spawned by     *)
(* cron (hp-integration.sh) and by the dashboard server's                  *)
(* POST /dashboard-api/hp-process handler.  The ledger (Actual Budget),    *)
(* the export service (Xano) and the state file are shared by all runs.    *)
(*                                                                         *)
(* Strings that the code inspects (transaction notes) are sequences of     *)
(* one-character strings; the two markers '#HP-Submitted' and '#HP-Paid'   *)
(* are abbreviated to two characters each.  Timestamps are abstracted to   *)
(* the number of the run that wrote them.  The text of the state file is a *)
(* sequence of tokens: the braces and the three members of the object.     *)
(***************************************************************************)
EXTENDS Integers, Sequences, FiniteSets, TLC

(***************************************************************************)
(* Bounds                                                                  *)
(***************************************************************************)
MaxRuns == 2

Procs == 1..MaxRuns

(***************************************************************************)
(* Program constants                                                       *)
(***************************************************************************)
SubmittedTag == <<"#", "S">>
PaidTag == <<"#", "P">>
DefaultBatch == 50
ConfiguredGroupId == "g-hp"

(***************************************************************************)
(* The ledger: accounts in listing order, category groups, categories,     *)
(* and the transactions in fetch order.                                    *)
(***************************************************************************)
TxOrder == <<"t1", "t2", "t3">>
TxIds == {TxOrder[i] : i \in 1..Len(TxOrder)}

Accounts ==
    << [id |-> "a1", offbudget |-> FALSE, closed |-> FALSE],
       [id |-> "a2", offbudget |-> FALSE, closed |-> FALSE],
       [id |-> "a3", offbudget |-> TRUE,  closed |-> FALSE],
       [id |-> "a4", offbudget |-> FALSE, closed |-> TRUE] >>

\* The category groups and categories of the budget the add-on ships its
\* default group id for.
MainCatalog ==
    [groups |-> << [id |-> "g-other", name |-> <<"L", "v">>],
                   [id |-> "g-hp", name |-> <<"B", "z">>] >>,
     categories |-> << [id |-> "c-food", group_id |-> "g-other"],
                       [id |-> "c-hp1", group_id |-> "g-hp"],
                       [id |-> "c-hp2", group_id |-> "g-hp"] >>]

NullCategory == "null"
CategoryValues == {"c-food", "c-hp1", "c-hp2", NullCategory}

NullNotes == [present |-> FALSE, text |-> <<>>]
Text(s) == [present |-> TRUE, text |-> s]

(***************************************************************************)
(* JavaScript built-ins the code relies on                                 *)
(***************************************************************************)
\* A marker test that looks at the start of the string only.
Includes_PrefixOnly(s, sub) ==
    Len(sub) <= Len(s) /\ SubSeq(s, 1, Len(sub)) = sub

\* String.prototype.includes: sub occurs in s at some position.
Includes(s, sub) ==
    \E i \in 1..(Len(s) - Len(sub) + 1) : SubSeq(s, i, i + Len(sub) - 1) = sub

\* `transaction.notes || ''`: null, undefined and '' all give ''.
NotesOrEmpty(n) == IF n.present /\ n.text # <<>> THEN n.text ELSE <<>>

MathMin(a, b) == IF a <= b THEN a ELSE b

\* Array.prototype.slice(0, end): a negative end counts from the end of the
\* array, an end beyond the length is the length.
SliceFromZero(s, end) ==
    LET e == IF end < 0
             THEN (IF Len(s) + end < 0 THEN 0 ELSE Len(s) + end)
             ELSE MathMin(end, Len(s))
    IN SubSeq(s, 1, e)

Range(s) == {s[i] : i \in 1..Len(s)}

\* Array.prototype.concat over a sequence of arrays, in order.
RECURSIVE Flatten(_)
Flatten(ss) == IF ss = <<>> THEN <<>> ELSE Head(ss) \o Flatten(Tail(ss))

\* String.prototype.toLowerCase on the letters group names are written in.
LowerChar(c) == CASE c = "H" -> "h" [] c = "P" -> "p" [] c = "L" -> "l"
                  [] c = "B" -> "b" [] OTHER -> c
ToLowerCase(s) == [i \in 1..Len(s) |-> LowerChar(s[i])]

(***************************************************************************)
(* State                                                                   *)
(***************************************************************************)
VARIABLES
    ledger,     \* Actual Budget: transaction id -> account, category, cleared, notes
    catalog,    \* Actual Budget: the category groups and the categories
    env,        \* the environment hp-integration.sh exports to every run
    file,       \* /data/hp-state.json
    xanoCalls,  \* Xano: number of POST /transactions requests received per transaction
    pc,         \* per run: where the node process is
    kind,       \* per run: "manual" (--manual) or "scheduled"
    st,         \* per run: this.state
    batch,      \* per run: transactionsToProcess
    idx,        \* per run: position of the for loop in transactionsToProcess
    tally,      \* per run: the locals processed, submitted, failed
    allTx,      \* per run: allTransactions of fetchHPTransactions
    eligible,   \* per run: the array fetchHPTransactions returned
    fetchFailed,\* per run: the accounts whose getTransactions call rejected
    pending,    \* per run: what the try or catch block of processAllTransactions
                \*          hands to its caller once the finally block is done
    teardown,   \* per run: the calls of shutdownActualBudget and whether
                \*          actualApi.shutdown rejected
    outcome,    \* per run: what main() printed and the exit code
    counters,   \* per run: this.counters
    announced,  \* per run: the last automation status handed to updateHASensor
    supervisor, \* Home Assistant: the token of the run's environment, how the
                \*   supervisor answers a POST, the automation status entity
    reply,      \* the dashboard's last response to a status query
    dashboard,  \* the dashboard server: whether its process runs, and per
                \*   spawned run the request that triggered it
    chain,      \* the updateHASensor calls that followed the last call of log
                \*   from the run, and what became of the latest
    ledgerCalls,\* per run: the actualApi functions fetchHPTransactions called
    server      \* api/index.js: the initialization flags, the executions of
                \*   performBackgroundInit, the retry timers, two requests

vars == <<ledger, catalog, env, file, xanoCalls, pc, kind, st, batch, idx, tally,
          allTx, eligible, fetchFailed, pending, teardown, outcome, counters,
          announced, supervisor, reply, dashboard, chain, ledgerCalls, server>>

(***************************************************************************)
(* State Store: loadState / saveState                                      *)
(***************************************************************************)
EmptyMap == [x \in {} |-> x]

DefaultState ==
    [transactions |-> EmptyMap,
     last_processing |-> 0,
     statistics |-> [total_processed |-> 0, total_submitted |-> 0,
                     total_paid |-> 0, total_failed |-> 0]]

\* The order in which a state object holds its members: the three the
\* processor knows, then one it does not know.
MemberOrder == <<"transactions", "last_processing", "statistics", "schema">>

\* JSON.stringify(this.state, null, 2), line 97: the text of the file, as the
\* opening brace, every member of the object in the order the object holds
\* them, and the closing brace.
JSONStringify(s) ==
    LET Has(m) == m \in DOMAIN s
        names == SelectSeq(MemberOrder, Has)
    IN <<[tok |-> "{"]>>
       \o [i \in 1..Len(names) |-> [tok |-> names[i], val |-> s[names[i]]]]
       \o <<[tok |-> "}"]>>

\* JSON.parse, line 74, throws a SyntaxError unless the text is a complete
\* value: an object text must run from its opening to its closing brace.
JSONParses(text) ==
    /\ Len(text) >= 2
    /\ text[1].tok = "{"
    /\ text[Len(text)].tok = "}"

\* The value of the member called name in an object text.
JSONMember(text, name) ==
    text[CHOOSE i \in 2..(Len(text) - 1) : text[i].tok = name].val

\* A parser that keeps the members the processor knows and drops the rest.
JSONParse_KnownMembersOnly(text) ==
    [m \in {text[i].tok : i \in 2..(Len(text) - 1)}
            \cap {"transactions", "last_processing", "statistics"} |->
        JSONMember(text, m)]

\* The object JSON.parse returns for a text that parses: every member of the
\* text, whatever its name.
JSONParse(text) ==
    [m \in {text[i].tok : i \in 2..(Len(text) - 1)} |-> JSONMember(text, m)]

NoFile == [exists |-> FALSE, text |-> <<>>]

\* What a completed writeFileSync leaves, line 97.
WrittenFile(s) == [exists |-> TRUE, text |-> JSONStringify(s)]

\* What an interrupted writeFileSync leaves: the file was truncated on opening
\* and holds the first n tokens of the text.
TornFile(s, n) == [exists |-> TRUE, text |-> SubSeq(JSONStringify(s), 1, n)]

\* A loader that takes the transactions of an incomplete text for a state.
loadState_AcceptsTorn(f) ==
    IF f.exists /\ JSONParses(f.text) THEN JSONParse(f.text)
    ELSE IF f.exists /\ Len(f.text) >= 2
         THEN [DefaultState EXCEPT !.transactions = f.text[2].val]
         ELSE DefaultState

\* loadState: the parsed file when it exists and parses, else (no file, or
\* the catch at 78-80) the default state.
loadState(f) ==
    IF f.exists /\ JSONParses(f.text) THEN JSONParse(f.text) ELSE DefaultState

\* loadConfiguration, line 57: parseInt(HP_MAX_TRANSACTIONS_PER_BATCH) || 50.
\* An unset variable parses to NaN; NaN and 0 are falsy.
ParseBatch(b) == IF ~b.set \/ b.val = 0 THEN DefaultBatch ELSE b.val

loadConfiguration(e) ==
    [hp_dry_run_mode |-> e.dry,
     hp_max_transactions_per_batch |-> ParseBatch(e.batch),
     hp_category_group_id |-> ConfiguredGroupId]

(***************************************************************************)
(* fetchHPTransactions                                                     *)
(***************************************************************************)
\* What actualApi.getTransactions(account.id, ...) returns: the account's
\* transactions in fetch order, as the ledger l holds them now.
getTransactions(l, accountId) ==
    LET InAccount(t) == l[t].account = accountId
        ids == SelectSeq(TxOrder, InAccount)
    IN [i \in 1..Len(ids) |->
            [id |-> ids[i], account |-> accountId, category |-> l[ids[i]].category,
             cleared |-> l[ids[i]].cleared, notes |-> l[ids[i]].notes]]

\* Lines 234-238: the first group whose id is the configured one, whose name is
\* 'HP' or whose lower-cased name contains 'hp'.
FindHPCategoryGroup(groups, configuredId) ==
    LET IsHP(g) == \/ g.id = configuredId
                   \/ g.name = <<"H", "P">>
                   \/ Includes(ToLowerCase(g.name), <<"h", "p">>)
        matching == SelectSeq(groups, IsHP)
    IN IF matching = <<>> THEN <<>> ELSE <<Head(matching)>>

\* Lines 250-272: the ids of the categories of the group found.
HPCategoryIds(groups, categories, configuredId) ==
    LET found == FindHPCategoryGroup(groups, configuredId)
        InGroup(c) == c.group_id = found[1].id
    IN IF found = <<>> THEN <<>>
       ELSE LET cats == SelectSeq(categories, InGroup)
            IN [i \in 1..Len(cats) |-> cats[i].id]

\* Line 266.
OnBudgetAccounts(accounts) ==
    LET Open(a) == ~a.offbudget /\ ~a.closed
    IN SelectSeq(accounts, Open)

\* Lines 285-287: t.category && hpCategoryIds.includes(t.category).
IsHPTransaction(t, hpCategoryIds) ==
    t.category # NullCategory /\ t.category \in Range(hpCategoryIds)

\* A merge loop without the inner try/catch: one rejected getTransactions
\* call loses the whole candidate set.
MergeAccounts_AbortOnFailure(l, accounts, hpCategoryIds, failing) ==
    LET HP(t) == IsHPTransaction(t, hpCategoryIds)
        PerAccount(a) == SelectSeq(getTransactions(l, a.id), HP)
    IN IF \E a \in Range(accounts) : a.id \in failing THEN <<>>
       ELSE Flatten([i \in 1..Len(accounts) |-> PerAccount(accounts[i])])

\* Lines 282-296: the merge loop.  failing is the set of account ids whose
\* getTransactions call rejects; the catch logs and goes on.
MergeAccounts(l, accounts, hpCategoryIds, failing) ==
    LET HP(t) == IsHPTransaction(t, hpCategoryIds)
        PerAccount(a) == IF a.id \in failing THEN <<>>
                         ELSE SelectSeq(getTransactions(l, a.id), HP)
    IN Flatten([i \in 1..Len(accounts) |-> PerAccount(accounts[i])])

\* An eligibility test that forgets the cleared flag.
IsEligible_NoClearedCheck(t) ==
    ~(\/ Includes(NotesOrEmpty(t.notes), SubmittedTag)
      \/ Includes(NotesOrEmpty(t.notes), PaidTag))

\* Lines 301-314: cleared, and no HP status tag in the notes.
IsEligible(t) ==
    /\ t.cleared
    /\ ~(\/ Includes(NotesOrEmpty(t.notes), SubmittedTag)
         \/ Includes(NotesOrEmpty(t.notes), PaidTag))

EligibleTransactions(all) == SelectSeq(all, IsEligible)

\* fetchHPTransactions as a whole: allTransactions and the array returned.
fetchHPTransactions(l, c, configuredId, failing) ==
    LET ids == HPCategoryIds(c.groups, c.categories, configuredId)
        all == IF ids = <<>> THEN <<>>
               ELSE MergeAccounts(l, OnBudgetAccounts(Accounts), ids, failing)
        calls == IF FindHPCategoryGroup(c.groups, configuredId) = <<>>
                 THEN {"getCategoryGroups"}
                 ELSE IF ids = <<>>
                      THEN {"getCategoryGroups", "getCategories"}
                      ELSE {"getCategoryGroups", "getCategories", "getAccounts",
                            "getTransactions"}
    IN [all |-> all, eligible |-> EligibleTransactions(all), calls |-> calls]

(***************************************************************************)
(* One run of the processor: main() and processAllTransactions             *)
(***************************************************************************)
\* Lines 33-39 and 506-512 (processed_today, a count by calendar day, left out).
ZeroCounters == [pending |-> 0, submitted |-> 0, paid |-> 0, failed |-> 0]

\* Lines 517-531: the tracked transactions with one status.
CountStatus(transactions, status) ==
    Cardinality({t \in DOMAIN transactions : transactions[t].status = status})

\* An updateCounters that counts on top of what the counters hold.
updateCounters_KeepsIncrements(c, transactions) ==
    [s \in DOMAIN ZeroCounters |-> c[s] + CountStatus(transactions, s)]

\* Lines 504-531: the counters are reset, then every tracked transaction is
\* counted under its status.
updateCounters(c, transactions) ==
    LET reset == ZeroCounters
    IN [s \in DOMAIN reset |-> reset[s] + CountStatus(transactions, s)]

\* The counter a transaction's result increments: lines 361, 375, 385, 399.
Increment(c, name) == [c EXCEPT ![name] = @ + 1]

SupervisorUp == [token |-> TRUE, answer |-> "ok", status |-> "unknown"]
NoReply == [route |-> "none", status |-> 0]

\* updateHASensor('sensor.actual_budget_hp_automation_status', status), lines
\* 128-174: without a token nothing is sent; the entity changes when the
\* supervisor answers 200 or 201; another answer or a request error is logged.
Publish(p, status) ==
    /\ announced' = [announced EXCEPT ![p] = status]
    /\ supervisor' = IF supervisor.token /\ supervisor.answer = "ok"
                     THEN [supervisor EXCEPT !.status = status]
                     ELSE supervisor

\* server.js 510-593: what the handler of POST /dashboard-api/hp-process
\* holds for one request: the responses written to res, the status of the
\* first, whether the 60-second timer is pending, whether close was handled.
NoRequest ==
    [open |-> FALSE, responses |-> 0, status |-> 0, timer |-> FALSE, closed |-> FALSE]
DashboardUp == [up |-> TRUE, req |-> [p \in Procs |-> NoRequest]]

NoChain == [attempts |-> 0, last |-> "none"]

NoOutcome ==
    [code |-> -1, success |-> FALSE, processed |-> 0, submitted |-> 0, failed |-> 0,
     error |-> "none"]
NoTeardown == [calls |-> 0, rejected |-> FALSE]
ZeroTally == [processed |-> 0, submitted |-> 0, failed |-> 0]

Started(p) == pc[p] # "notStarted"
Active(p) == pc[p] \notin {"notStarted", "exited"}

OnBudgetIds == {a.id : a \in Range(OnBudgetAccounts(Accounts))}

\* Lines 340-355: look up or create the tracked entry, count the attempt.
TrackAttempt(transactions, t) ==
    LET known == IF t.id \in DOMAIN transactions THEN transactions
                 ELSE (t.id :> [id |-> t.id, category |-> t.category,
                                status |-> "pending", attempts |-> 0,
                                error |-> "none", xano_id |-> "none"])
                      @@ transactions
    IN [known EXCEPT ![t.id].attempts = @ + 1]

\* Line 491: the notes addNoteTag writes, from the notes the run fetched.
NewNotes(notes, tag) ==
    IF NotesOrEmpty(notes) # <<>> THEN Text(NotesOrEmpty(notes) \o <<" ">> \o tag)
    ELSE Text(tag)

\* Lines 573-574.
TransactionsToProcess(transactions, maxPerBatch) ==
    SliceFromZero(transactions, MathMin(Len(transactions), maxPerBatch))

\* The for loop at 582-594 after one item: on to the next item or to persisting.
AfterItem(p) ==
    IF idx[p] + 1 > Len(batch[p]) THEN "persisting" ELSE "submitting"

\* process.exit: the process's memory is gone; what it printed stays.
Exit(p, result) ==
    /\ pc' = [pc EXCEPT ![p] = "exited"]
    /\ outcome' = [outcome EXCEPT ![p] = result]
    /\ batch' = [batch EXCEPT ![p] = <<>>]
    /\ idx' = [idx EXCEPT ![p] = 0]
    /\ tally' = [tally EXCEPT ![p] = ZeroTally]
    /\ allTx' = [allTx EXCEPT ![p] = <<>>]
    /\ eligible' = [eligible EXCEPT ![p] = <<>>]
    /\ fetchFailed' = [fetchFailed EXCEPT ![p] = {}]
    /\ pending' = [pending EXCEPT ![p] = NoOutcome]
    /\ st' = [st EXCEPT ![p] = DefaultState]
    /\ counters' = [counters EXCEPT ![p] = ZeroCounters]

Failure == [NoOutcome EXCEPT !.code = 1]
Success(t) ==
    [code |-> 0, success |-> TRUE, processed |-> t.processed,
     submitted |-> t.submitted, failed |-> t.failed, error |-> "none"]

\* Lines 614-619: the catch block logs and rethrows the error; main prints
\* error.message (line 654).
Throw(message) == [Failure EXCEPT !.error = message]

\* server.js, the close handler of POST /dashboard-api/hp-process (532-562):
\* exit code 0 and a last stdout line that parses (the line main prints at
\* 643) give 200 with the line's members; anything else gives 500.
HpProcessClose(o) ==
    IF o.code = 0 /\ o.success
    THEN [route |-> "hp-process", status |-> 200, success |-> o.success,
          processed |-> o.processed, submitted |-> o.submitted, failed |-> o.failed]
    ELSE [route |-> "hp-process", status |-> 500, success |-> FALSE,
          processed |-> 0, submitted |-> 0, failed |-> 0]

\* A return or a throw inside the try of processAllTransactions: the value is
\* held back until the finally block has run.
Leave(p, result) ==
    /\ pc' = [pc EXCEPT ![p] = "finally"]
    /\ pending' = [pending EXCEPT ![p] = result]

\* A node process is spawned: `node /opt/hp-processor.js [--manual]`.  The
\* constructor loads the configuration and the state file.  Neither cron
\* (setup_hp_schedule, run_hp_processing) nor the dashboard handler looks for
\* a run in progress.
StartRun(p, k) ==
    /\ pc[p] = "notStarted"
    /\ \A q \in Procs : q < p => Started(q)
    /\ pc' = [pc EXCEPT ![p] = "initializing"]
    /\ kind' = [kind EXCEPT ![p] = k]
    /\ st' = [st EXCEPT ![p] = loadState(file)]
    /\ UNCHANGED <<ledger, catalog, env, file, xanoCalls, batch, idx, tally, allTx, eligible, fetchFailed, pending, teardown, outcome, counters, announced, supervisor, reply, chain, ledgerCalls, server>>

\* cron: `hp-integration.sh schedule` -> run_hp_processing "false".
ScheduledTrigger(p) == StartRun(p, "scheduled") /\ UNCHANGED dashboard

\* POST /dashboard-api/hp-process: spawn('node', ['/opt/hp-processor.js', '--manual']).
HpProcessTrigger(p) ==
    /\ dashboard.up
    /\ StartRun(p, "manual")
    /\ dashboard' = [dashboard EXCEPT !.req[p] = [NoRequest EXCEPT !.open = TRUE,
                                                              !.timer = TRUE]]

\* initializeActualBudget succeeds.
InitializeOk(p) ==
    /\ pc[p] = "initializing"
    /\ pc' = [pc EXCEPT ![p] = "fetching"]
    /\ Publish(p, "running")
    /\ UNCHANGED <<ledger, catalog, env, file, xanoCalls, kind, st, batch, idx, tally, allTx, eligible, fetchFailed, pending, teardown, outcome, counters, reply, dashboard, chain, ledgerCalls, server>>

\* A failed initialization that stamps and saves the state before it throws.
InitializeFails_SavesState(p) ==
    /\ pc[p] = "initializing"
    /\ Leave(p, Throw("init"))
    /\ st' = [st EXCEPT ![p].last_processing = p]
    /\ file' = WrittenFile(st'[p])
    /\ Publish(p, "error")
    /\ UNCHANGED <<ledger, catalog, env, xanoCalls, kind, batch, idx, tally, allTx, eligible, fetchFailed, teardown, outcome, counters, reply, dashboard, chain, ledgerCalls, server>>

\* initializeActualBudget throws (lines 208-211): the catch at 614 logs and
\* rethrows.
InitializeFails(p) ==
    /\ pc[p] = "initializing"
    /\ Leave(p, Throw("init"))
    /\ Publish(p, "error")
    /\ UNCHANGED <<ledger, catalog, env, file, xanoCalls, kind, st, batch, idx, tally, allTx, eligible, fetchFailed, teardown, outcome, counters, reply, dashboard, chain, ledgerCalls, server>>

\* fetchHPTransactions runs to its return at line 325.
Fetch(p) ==
    /\ pc[p] = "fetching"
    /\ \E failing \in SUBSET OnBudgetIds :
         LET r == fetchHPTransactions(ledger, catalog,
                                      loadConfiguration(env).hp_category_group_id, failing)
         IN /\ allTx' = [allTx EXCEPT ![p] = r.all]
            /\ eligible' = [eligible EXCEPT ![p] = r.eligible]
            /\ fetchFailed' = [fetchFailed EXCEPT ![p] =
                  IF "getTransactions" \in r.calls THEN failing ELSE {}]
            /\ ledgerCalls' = [ledgerCalls EXCEPT ![p] = r.calls]
    /\ pc' = [pc EXCEPT ![p] = "fetched"]
    /\ UNCHANGED <<ledger, catalog, env, file, xanoCalls, kind, st, batch, idx, tally, pending, teardown, outcome, counters, announced, supervisor, reply, dashboard, chain, server>>

\* NoEligible, had the empty result been thrown as an error.
NoEligible_Throws(p) ==
    /\ pc[p] = "fetched"
    /\ Len(eligible[p]) = 0
    /\ Leave(p, Throw("no transactions"))
    /\ counters' = [counters EXCEPT ![p] = updateCounters(@, st[p].transactions)]
    /\ Publish(p, "error")
    /\ UNCHANGED <<ledger, catalog, env, file, xanoCalls, kind, st, batch, idx, tally, allTx, eligible, fetchFailed, teardown, outcome, reply, dashboard, chain, ledgerCalls, server>>

\* Lines 563-570: nothing eligible; the run returns zeros without calling
\* saveState.
NoEligible(p) ==
    /\ pc[p] = "fetched"
    /\ Len(eligible[p]) = 0
    /\ Leave(p, Success(ZeroTally))
    /\ counters' = [counters EXCEPT ![p] = updateCounters(@, st[p].transactions)]
    /\ Publish(p, "idle")
    /\ UNCHANGED <<ledger, catalog, env, file, xanoCalls, kind, st, batch, idx, tally, allTx, eligible, fetchFailed, teardown, outcome, reply, dashboard, chain, ledgerCalls, server>>

\* Lines 572-580: the batch is cut and the loop starts.
BeginBatch(p) ==
    /\ pc[p] = "fetched"
    /\ Len(eligible[p]) # 0
    /\ batch' = [batch EXCEPT ![p] =
          TransactionsToProcess(eligible[p],
                                loadConfiguration(env).hp_max_transactions_per_batch)]
    /\ idx' = [idx EXCEPT ![p] = 1]
    /\ tally' = [tally EXCEPT ![p] = ZeroTally]
    /\ pc' = [pc EXCEPT ![p] = IF Len(batch'[p]) = 0 THEN "persisting" ELSE "submitting"]
    /\ UNCHANGED <<ledger, catalog, env, file, xanoCalls, kind, st, allTx, eligible, fetchFailed, pending, teardown, outcome, counters, announced, supervisor, reply, dashboard, chain, ledgerCalls, server>>

\* getCategoryGroups, getCategories or getAccounts rejects: the catch at 327
\* rethrows, the catch at 614 logs and rethrows.
FetchThrows(p) ==
    /\ pc[p] = "fetching"
    /\ Leave(p, Throw("fetch"))
    /\ Publish(p, "error")
    /\ UNCHANGED <<ledger, catalog, env, file, xanoCalls, kind, st, batch, idx, tally, allTx, eligible, fetchFailed, teardown, outcome, counters, reply, dashboard, chain, ledgerCalls, server>>

\* A dry run whose items come back as failures.
ProcessDryRun_CountsFailure(p) ==
    /\ pc[p] = "submitting"
    /\ loadConfiguration(env).hp_dry_run_mode
    /\ LET t == batch[p][idx[p]]
           tracked == TrackAttempt(st[p].transactions, t)
       IN st' = [st EXCEPT ![p].transactions =
                    [tracked EXCEPT ![t.id].status = "failed"]]
    /\ tally' = [tally EXCEPT ![p].processed = @ + 1, ![p].failed = @ + 1]
    /\ idx' = [idx EXCEPT ![p] = @ + 1]
    /\ pc' = [pc EXCEPT ![p] = AfterItem(p)]
    /\ counters' = [counters EXCEPT ![p] = Increment(@, "failed")]
    /\ UNCHANGED <<ledger, catalog, env, file, xanoCalls, kind, batch, allTx, eligible, fetchFailed, pending, teardown, outcome, announced, supervisor, reply, dashboard, chain, ledgerCalls, server>>

\* processTransaction in dry-run mode, lines 340-366, and the loop's tally.
\* A dry run that posts the transaction to Xano all the same.
ProcessDryRun_CallsXano(p) ==
    /\ pc[p] = "submitting"
    /\ loadConfiguration(env).hp_dry_run_mode
    /\ LET t == batch[p][idx[p]]
           tracked == TrackAttempt(st[p].transactions, t)
       IN /\ xanoCalls' = [xanoCalls EXCEPT ![t.id] = @ + 1]
          /\ st' = [st EXCEPT ![p].transactions =
                      [tracked EXCEPT ![t.id].status = "submitted"]]
    /\ tally' = [tally EXCEPT ![p].processed = @ + 1, ![p].submitted = @ + 1]
    /\ counters' = [counters EXCEPT ![p] = Increment(@, "submitted")]
    /\ idx' = [idx EXCEPT ![p] = @ + 1]
    /\ pc' = [pc EXCEPT ![p] = AfterItem(p)]
    /\ UNCHANGED <<ledger, catalog, env, file, kind, batch, allTx, eligible, fetchFailed, pending, teardown, outcome, announced, supervisor, reply, dashboard, chain, ledgerCalls, server>>

ProcessDryRun(p) ==
    /\ pc[p] = "submitting"
    /\ loadConfiguration(env).hp_dry_run_mode
    /\ LET t == batch[p][idx[p]]
           tracked == TrackAttempt(st[p].transactions, t)
       IN st' = [st EXCEPT ![p].transactions =
                    [tracked EXCEPT ![t.id].status = "submitted"]]
    /\ tally' = [tally EXCEPT ![p].processed = @ + 1, ![p].submitted = @ + 1]
    /\ idx' = [idx EXCEPT ![p] = @ + 1]
    /\ pc' = [pc EXCEPT ![p] = AfterItem(p)]
    /\ counters' = [counters EXCEPT ![p] = Increment(@, "submitted")]
    /\ UNCHANGED <<ledger, catalog, env, file, xanoCalls, kind, batch, allTx, eligible, fetchFailed, pending, teardown, outcome, announced, supervisor, reply, dashboard, chain, ledgerCalls, server>>

\* processTransaction, lines 340-375: the attempt is counted, submitToXano
\* posts the transaction and Xano accepts it.
SubmitOk(p) ==
    /\ pc[p] = "submitting"
    /\ ~loadConfiguration(env).hp_dry_run_mode
    /\ LET t == batch[p][idx[p]]
           tracked == TrackAttempt(st[p].transactions, t)
       IN /\ xanoCalls' = [xanoCalls EXCEPT ![t.id] = @ + 1]
          /\ st' = [st EXCEPT ![p].transactions =
                      [tracked EXCEPT ![t.id].status = "submitted",
                                      ![t.id].xano_id = "xid"]]
    /\ pc' = [pc EXCEPT ![p] = "tagging"]
    /\ counters' = [counters EXCEPT ![p] = Increment(@, "submitted")]
    /\ UNCHANGED <<ledger, catalog, env, file, kind, batch, idx, tally, allTx, eligible, fetchFailed, pending, teardown, outcome, announced, supervisor, reply, dashboard, chain, ledgerCalls, server>>

\* A failed submission that keeps no error message.
SubmitFails_DropsError(p) ==
    /\ pc[p] = "submitting"
    /\ ~loadConfiguration(env).hp_dry_run_mode
    /\ LET t == batch[p][idx[p]]
           tracked == TrackAttempt(st[p].transactions, t)
       IN /\ xanoCalls' = [xanoCalls EXCEPT ![t.id] = @ + 1]
          /\ st' = [st EXCEPT ![p].transactions =
                      [tracked EXCEPT ![t.id].status = "failed"]]
    /\ tally' = [tally EXCEPT ![p].processed = @ + 1, ![p].failed = @ + 1]
    /\ idx' = [idx EXCEPT ![p] = @ + 1]
    /\ pc' = [pc EXCEPT ![p] = AfterItem(p)]
    /\ counters' = [counters EXCEPT ![p] = Increment(@, "failed")]
    /\ UNCHANGED <<ledger, catalog, env, file, kind, batch, allTx, eligible, fetchFailed, pending, teardown, outcome, announced, supervisor, reply, dashboard, chain, ledgerCalls, server>>

\* processTransaction, lines 340-370 and 382-389: submitToXano catches the
\* request's error and returns {success: false, error}.
SubmitFails(p) ==
    /\ pc[p] = "submitting"
    /\ ~loadConfiguration(env).hp_dry_run_mode
    /\ LET t == batch[p][idx[p]]
           tracked == TrackAttempt(st[p].transactions, t)
       IN /\ xanoCalls' = [xanoCalls EXCEPT ![t.id] = @ + 1]
          /\ st' = [st EXCEPT ![p].transactions =
                      [tracked EXCEPT ![t.id].status = "failed",
                                      ![t.id].error = "xano error"]]
    /\ tally' = [tally EXCEPT ![p].processed = @ + 1, ![p].failed = @ + 1]
    /\ idx' = [idx EXCEPT ![p] = @ + 1]
    /\ pc' = [pc EXCEPT ![p] = AfterItem(p)]
    /\ counters' = [counters EXCEPT ![p] = Increment(@, "failed")]
    /\ UNCHANGED <<ledger, catalog, env, file, kind, batch, allTx, eligible, fetchFailed, pending, teardown, outcome, announced, supervisor, reply, dashboard, chain, ledgerCalls, server>>

\* A processTransaction without its catch block: the exception leaves the loop.
ProcessThrows_Rethrows(p, counted) ==
    /\ pc[p] = "submitting"
    /\ LET t == batch[p][idx[p]]
       IN st' = [st EXCEPT ![p].transactions =
                    IF counted THEN TrackAttempt(st[p].transactions, t)
                    ELSE st[p].transactions]
    /\ Leave(p, Throw("exception"))
    /\ Publish(p, "error")
    /\ UNCHANGED <<ledger, catalog, env, file, xanoCalls, kind, batch, idx, tally, allTx, eligible, fetchFailed, teardown, outcome, counters, reply, dashboard, chain, ledgerCalls, server>>

\* processTransaction, lines 336-355 and 391-401: an exception inside the try
\* block, before the entry is looked up (counted = FALSE) or after the attempt
\* was counted.  The catch marks the entry, if there is one, as failed with the
\* error's message and returns {success: false}; the loop goes on.
ProcessThrows(p, counted) ==
    /\ pc[p] = "submitting"
    /\ LET t == batch[p][idx[p]]
           tracked == IF counted THEN TrackAttempt(st[p].transactions, t)
                      ELSE st[p].transactions
       IN st' = [st EXCEPT ![p].transactions =
                    IF t.id \in DOMAIN tracked
                    THEN [tracked EXCEPT ![t.id].status = "failed",
                                         ![t.id].error = "exception"]
                    ELSE tracked]
    /\ tally' = [tally EXCEPT ![p].processed = @ + 1, ![p].failed = @ + 1]
    /\ idx' = [idx EXCEPT ![p] = @ + 1]
    /\ pc' = [pc EXCEPT ![p] = AfterItem(p)]
    /\ counters' = [counters EXCEPT ![p] = Increment(@, "failed")]
    /\ UNCHANGED <<ledger, catalog, env, file, xanoCalls, kind, batch, allTx, eligible, fetchFailed, pending, teardown, outcome, announced, supervisor, reply, dashboard, chain, ledgerCalls, server>>

\* addNoteTag, lines 488-502: updateTransaction either writes the new notes
\* or rejects; the rejection is logged and swallowed.  Either way
\* processTransaction returns success and the loop goes on.
AddNoteTag_ReplacesNotes(p, written) ==
    /\ pc[p] = "tagging"
    /\ LET t == batch[p][idx[p]]
       IN ledger' = IF written
                    THEN [ledger EXCEPT ![t.id].notes = Text(SubmittedTag)]
                    ELSE ledger
    /\ tally' = [tally EXCEPT ![p].processed = @ + 1, ![p].submitted = @ + 1]
    /\ idx' = [idx EXCEPT ![p] = @ + 1]
    /\ pc' = [pc EXCEPT ![p] = AfterItem(p)]
    /\ UNCHANGED <<catalog, env, file, xanoCalls, kind, st, batch, allTx, eligible, fetchFailed, pending, teardown, outcome, counters, announced, supervisor, reply, dashboard, chain, ledgerCalls, server>>

AddNoteTag(p, written) ==
    /\ pc[p] = "tagging"
    /\ LET t == batch[p][idx[p]]
       IN ledger' = IF written
                    THEN [ledger EXCEPT ![t.id].notes = NewNotes(t.notes, SubmittedTag)]
                    ELSE ledger
    /\ tally' = [tally EXCEPT ![p].processed = @ + 1, ![p].submitted = @ + 1]
    /\ idx' = [idx EXCEPT ![p] = @ + 1]
    /\ pc' = [pc EXCEPT ![p] = AfterItem(p)]
    /\ UNCHANGED <<catalog, env, file, xanoCalls, kind, st, batch, allTx, eligible, fetchFailed, pending, teardown, outcome, counters, announced, supervisor, reply, dashboard, chain, ledgerCalls, server>>

\* A statistics update that leaves out the failures.
AfterRun_ForgetsFailed(s, p, t) ==
    [s EXCEPT !.statistics.total_processed = @ + t.processed,
              !.statistics.total_submitted = @ + t.submitted,
              !.last_processing = p]

\* A statistics update that leaves out the submissions.
AfterRun_ForgetsSubmitted(s, p, t) ==
    [s EXCEPT !.statistics.total_processed = @ + t.processed,
              !.statistics.total_failed = @ + t.failed,
              !.last_processing = p]

\* Lines 596-602 and saveState: the statistics, last_processing, the write.
AfterRun(s, p, t) ==
    [s EXCEPT !.statistics.total_processed = @ + t.processed,
              !.statistics.total_submitted = @ + t.submitted,
              !.statistics.total_failed = @ + t.failed,
              !.last_processing = p]

\* A saveState without its try/catch: the error of writeFileSync ends the run.
Persist_ThrowsOnFailure(p, saved) ==
    /\ pc[p] = "persisting"
    /\ st' = [st EXCEPT ![p] = AfterRun(st[p], p, tally[p])]
    /\ file' = IF saved THEN WrittenFile(st'[p]) ELSE file
    /\ IF saved
       THEN pc' = [pc EXCEPT ![p] = "completed"] /\ UNCHANGED <<pending, announced, supervisor>>
       ELSE Leave(p, Throw("save")) /\ Publish(p, "error")
    /\ UNCHANGED <<ledger, catalog, env, xanoCalls, kind, batch, idx, tally, allTx, eligible, fetchFailed, teardown, outcome, counters, reply, dashboard, chain, ledgerCalls, server>>

\* Lines 596-602.  When writeFileSync throws, saveState logs and the file
\* stays as it was.
Persist(p, saved) ==
    /\ pc[p] = "persisting"
    /\ st' = [st EXCEPT ![p] = AfterRun(st[p], p, tally[p])]
    /\ file' = IF saved THEN WrittenFile(st'[p]) ELSE file
    /\ pc' = [pc EXCEPT ![p] = "completed"]
    /\ UNCHANGED <<ledger, catalog, env, xanoCalls, kind, batch, idx, tally, allTx, eligible, fetchFailed, pending, teardown, outcome, counters, announced, supervisor, reply, dashboard, chain, ledgerCalls, server>>

\* Lines 604-612: the counters and sensors are updated and the counts returned.
Finish(p) ==
    /\ pc[p] = "completed"
    /\ Leave(p, Success(tally[p]))
    /\ counters' = [counters EXCEPT ![p] = updateCounters(@, st[p].transactions)]
    /\ Publish(p, "completed")
    /\ UNCHANGED <<ledger, catalog, env, file, xanoCalls, kind, st, batch, idx, tally, allTx, eligible, fetchFailed, teardown, outcome, reply, dashboard, chain, ledgerCalls, server>>

\* A shutdownActualBudget without its try/catch: a rejection of
\* actualApi.shutdown takes the place of the run's result.
ShutdownActualBudget_Unguarded(p, ok) ==
    /\ pc[p] = "finally"
    /\ teardown' = [teardown EXCEPT ![p] = [calls |-> @.calls + 1, rejected |-> ~ok]]
    /\ Exit(p, IF ok THEN pending[p] ELSE Throw("shutdown"))
    /\ UNCHANGED <<ledger, catalog, env, file, xanoCalls, kind, announced, supervisor, reply, dashboard, chain, ledgerCalls, server>>

\* Lines 620-623 and 214-221: the finally block awaits shutdownActualBudget,
\* which catches a rejection of actualApi.shutdown and logs it.  Then the
\* held-back result or error reaches main (641-659), which prints it and exits.
ShutdownActualBudget(p, ok) ==
    /\ pc[p] = "finally"
    /\ teardown' = [teardown EXCEPT ![p] = [calls |-> @.calls + 1, rejected |-> ~ok]]
    /\ Exit(p, pending[p])
    /\ UNCHANGED <<ledger, catalog, env, file, xanoCalls, kind, announced, supervisor, reply, dashboard, chain, ledgerCalls, server>>

\* Lines 596-602 when writeFileSync throws after it has truncated the file
\* and written the first n tokens (the disk is full): saveState logs the
\* error and the run goes on.
PersistTorn(p, n) ==
    /\ pc[p] = "persisting"
    /\ st' = [st EXCEPT ![p] = AfterRun(st[p], p, tally[p])]
    /\ file' = TornFile(st'[p], n)
    /\ pc' = [pc EXCEPT ![p] = "completed"]
    /\ UNCHANGED <<ledger, catalog, env, xanoCalls, kind, batch, idx, tally, allTx, eligible, fetchFailed, pending, teardown, outcome, counters, announced, supervisor, reply, dashboard, chain, ledgerCalls, server>>

Killed == [NoOutcome EXCEPT !.code = 0]
Crashed == [NoOutcome EXCEPT !.code = 137]

\* SIGTERM or SIGINT, lines 663-671: the handler prints a line and calls
\* process.exit(0) wherever the run is.  The dashboard sends SIGTERM when a
\* manual run takes more than 60 seconds (server.js 565-567).
Kill(p) ==
    /\ Active(p)
    /\ Exit(p, Killed)
    /\ UNCHANGED <<ledger, catalog, env, file, xanoCalls, kind, teardown, announced, supervisor, reply, dashboard, chain, ledgerCalls, server>>

\* The process dies (SIGKILL, power loss) inside writeFileSync, line 97: the
\* file was truncated and holds the first n tokens of the text.
KilledWhileSaving(p, n) ==
    /\ pc[p] = "persisting"
    /\ file' = TornFile(AfterRun(st[p], p, tally[p]), n)
    /\ Exit(p, Crashed)
    /\ UNCHANGED <<ledger, catalog, env, xanoCalls, kind, teardown, announced, supervisor, reply, dashboard, chain, ledgerCalls, server>>

(***************************************************************************)
(* The API server, api/index.js                                            *)
(***************************************************************************)
\* How many times api.init or downloadBudget (or mkdirSync) fail before they
\* succeed for good.
MaxFailures == 2
\* Executions of performBackgroundInit that are followed.
MaxInits == MaxFailures + 2
maxRetries == 3

hpVars == <<ledger, catalog, env, file, xanoCalls, pc, kind, st, batch, idx, tally,
            allTx, eligible, fetchFailed, pending, teardown, outcome, counters,
            announced, supervisor, reply, dashboard, chain, ledgerCalls>>

NoAccountsRequest == [pos |-> "none", checked |-> FALSE, called |-> FALSE,
                      status |-> 0, error |-> "none"]
NoImportRequest == [pos |-> "none", body |-> FALSE, attempt |-> 0, tries |-> 0,
                    calls |-> 0, responses |-> 0, status |-> 0]

\* Lines 59-61 and the module as loaded: nothing initialized, not listening.
\* awaitingInit and awaitingDownload count the executions of
\* performBackgroundInit suspended at line 96 and at line 116.
ServerStart ==
    [listening |-> FALSE,
     actualInitialized |-> FALSE, initializationInProgress |-> FALSE,
     initializationError |-> FALSE,
     awaitingInit |-> 0, awaitingDownload |-> 0, started |-> 0,
     timers |-> 0, failures |-> 0, lastRetry |-> 0,
     accounts |-> NoAccountsRequest, import |-> NoImportRequest]

\* initActual with the in-progress state taken for ready.
initActual_PassesInProgress(s) ==
    IF s.actualInitialized \/ s.initializationInProgress THEN "ok"
    ELSE IF s.initializationError THEN "Previous initialization failed"
    ELSE "System not ready"

\* initActual, lines 63-77: returns when initialized, throws otherwise.
initActual(s) ==
    IF s.actualInitialized THEN "ok"
    ELSE IF s.initializationInProgress THEN "Initialization in progress"
    ELSE IF s.initializationError THEN "Previous initialization failed"
    ELSE "System not ready"

\* The catch block of performBackgroundInit without the setTimeout.
InitCatch_NoRetry(s) ==
    [s EXCEPT !.initializationError = TRUE, !.initializationInProgress = FALSE,
              !.failures = @ + 1]

\* The catch block of performBackgroundInit, lines 147-163.
InitCatch(s) ==
    [s EXCEPT !.initializationError = TRUE, !.initializationInProgress = FALSE,
              !.timers = @ + 1, !.failures = @ + 1]

\* performBackgroundInit up to its first await, lines 79-96: the guard, the
\* two assignments, the data directory (mkdirSync may throw into the catch
\* block), the call of api.init.
performBackgroundInit(s, dirOk) ==
    IF s.actualInitialized \/ s.initializationInProgress THEN s
    ELSE LET t == [s EXCEPT !.initializationInProgress = TRUE,
                            !.initializationError = FALSE,
                            !.started = @ + 1]
         IN IF dirOk THEN [t EXCEPT !.awaitingInit = @ + 1] ELSE InitCatch(t)

\* A caller of performBackgroundInit; failures are capped by MaxFailures and
\* executions by MaxInits.
CallPerformBackgroundInit(s) ==
    /\ s.started < MaxInits
    /\ \E dirOk \in BOOLEAN :
          /\ dirOk \/ s.failures < MaxFailures
          /\ server' = performBackgroundInit(s, dirOk)

\* The callback of app.listen, lines 657-667.
Listen ==
    /\ ~server.listening
    /\ CallPerformBackgroundInit([server EXCEPT !.listening = TRUE])
    /\ UNCHANGED hpVars

\* api.init resolves, lines 96-116: downloadBudget is called and raced
\* against the 5-minute timeout.
ApiInitResolves ==
    /\ server.awaitingInit > 0
    /\ server' = [server EXCEPT !.awaitingInit = @ - 1, !.awaitingDownload = @ + 1]
    /\ UNCHANGED hpVars

\* api.init rejects: the catch block.
ApiInitRejects ==
    /\ server.awaitingInit > 0
    /\ server.failures < MaxFailures
    /\ server' = InitCatch([server EXCEPT !.awaitingInit = @ - 1])
    /\ UNCHANGED hpVars

\* The race at line 116 resolves, lines 117-145.
DownloadResolves ==
    /\ server.awaitingDownload > 0
    /\ server' = [server EXCEPT !.awaitingDownload = @ - 1,
                                !.actualInitialized = TRUE,
                                !.initializationInProgress = FALSE]
    /\ UNCHANGED hpVars

\* downloadBudget rejects or the timeout wins: lines 119-132 rethrow into
\* the catch block.
DownloadRejects ==
    /\ server.awaitingDownload > 0
    /\ server.failures < MaxFailures
    /\ server' = InitCatch([server EXCEPT !.awaitingDownload = @ - 1])
    /\ UNCHANGED hpVars

\* The retry timer of lines 158-162 fires.
RetryTimerFires ==
    /\ server.timers > 0
    /\ CallPerformBackgroundInit([server EXCEPT !.timers = @ - 1,
                                                !.initializationError = FALSE])
    /\ UNCHANGED hpVars

\* POST /retry-init, lines 616-647.
RetryInit ==
    /\ server.listening
    /\ IF server.actualInitialized
       THEN server' = [server EXCEPT !.lastRetry = 200]
       ELSE IF server.initializationInProgress
            THEN server' = [server EXCEPT !.lastRetry = 409]
            ELSE CallPerformBackgroundInit([server EXCEPT !.lastRetry = 200])
    /\ UNCHANGED hpVars

\* POST /reset-init, lines 588-613: the three flags are cleared, api.shutdown
\* is awaited, the reply is 200 whether it resolves or rejects.
ResetInit ==
    /\ server.listening
    /\ server' = [server EXCEPT !.actualInitialized = FALSE,
                                !.initializationInProgress = FALSE,
                                !.initializationError = FALSE]
    /\ UNCHANGED hpVars

\* GET /accounts, lines 389-392: initActual, then api.getAccounts is called,
\* or the catch block replies 500 with the message.
AccountsRequest ==
    /\ server.listening
    /\ server.accounts.pos # "calling"
    /\ server' = [server EXCEPT !.accounts =
          IF initActual(server) = "ok"
          THEN [pos |-> "calling", checked |-> server.actualInitialized,
                called |-> TRUE, status |-> 0, error |-> "none"]
          ELSE [pos |-> "done", checked |-> server.actualInitialized,
                called |-> FALSE, status |-> 500, error |-> initActual(server)]]
    /\ UNCHANGED hpVars

\* api.getAccounts settles, lines 392-406.
AccountsSettles(ok) ==
    /\ server.accounts.pos = "calling"
    /\ server' = [server EXCEPT !.accounts.pos = "done",
                                !.accounts.status = IF ok THEN 200 ELSE 500,
                                !.accounts.error = IF ok THEN "none" ELSE "getAccounts"]
    /\ UNCHANGED hpVars

\* POST /import arrives, lines 202-211; wellFormed: transactions is an array
\* of objects, so that the map at 223 does not throw.
ImportRequest(wellFormed) ==
    /\ server.listening
    /\ server.import.pos = "none"
    /\ server' = [server EXCEPT !.import =
          [NoImportRequest EXCEPT !.pos = "attempting", !.body = wellFormed]]
    /\ UNCHANGED hpVars

\* The catch block of the retry loop with the attempt not counted.
ImportCatch_NotCounted(i) ==
    [i EXCEPT !.pos = "waiting"]

\* The catch block of the retry loop, lines 292-321.
ImportCatch(i) ==
    IF i.attempt + 1 = maxRetries
    THEN [i EXCEPT !.attempt = @ + 1, !.pos = "done", !.responses = @ + 1,
                   !.status = 500]
    ELSE [i EXCEPT !.attempt = @ + 1, !.pos = "waiting"]

\* One pass of the loop up to its await, lines 213-253.
ImportAttempt ==
    /\ server.import.pos = "attempting"
    /\ LET i == [server.import EXCEPT !.tries = @ + 1]
       IN server' = [server EXCEPT !.import =
             IF initActual(server) = "ok" /\ i.body
             THEN [i EXCEPT !.pos = "importing", !.calls = @ + 1]
             ELSE ImportCatch(i)]
    /\ UNCHANGED hpVars

\* api.importTransactions resolves, lines 254-290: 400 when the result lists
\* errors, else 200 (an undefined result is replaced at 270-273); return.
ImportResolves(result) ==
    /\ server.import.pos = "importing"
    /\ server' = [server EXCEPT !.import.pos = "done",
                                !.import.responses = @ + 1,
                                !.import.status = IF result = "errors" THEN 400 ELSE 200]
    /\ UNCHANGED hpVars

\* api.importTransactions rejects, lines 256-259 rethrow into the catch block.
ImportRejects ==
    /\ server.import.pos = "importing"
    /\ server' = [server EXCEPT !.import = ImportCatch(server.import)]
    /\ UNCHANGED hpVars

\* The backoff timer of lines 318-320 fires and the loop goes round.
ImportBackoffElapsed ==
    /\ server.import.pos = "waiting"
    /\ server' = [server EXCEPT !.import.pos = "attempting"]
    /\ UNCHANGED hpVars

(***************************************************************************)
(* The system: the ledger as it stands, any number of triggers             *)
(***************************************************************************)
\* HP_MAX_TRANSACTIONS_PER_BATCH: unset (the default applies), or 1.
BatchEnvValues == {[set |-> FALSE, val |-> 0], [set |-> TRUE, val |-> 1]}

MainLedger ==
    [t \in TxIds |->
        CASE t = "t1" -> [account |-> "a1", category |-> "c-hp1", cleared |-> TRUE,
                          notes |-> NullNotes]
          [] t = "t2" -> [account |-> "a2", category |-> "c-hp2", cleared |-> TRUE,
                          notes |-> Text(<<"x">>)]
          [] OTHER    -> [account |-> "a1", category |-> "c-hp1", cleared |-> FALSE,
                          notes |-> Text(<<>>)]]

ProcInit ==
    /\ pc = [p \in Procs |-> "notStarted"]
    /\ kind = [p \in Procs |-> "none"]
    /\ st = [p \in Procs |-> DefaultState]
    /\ batch = [p \in Procs |-> <<>>]
    /\ idx = [p \in Procs |-> 0]
    /\ tally = [p \in Procs |-> ZeroTally]
    /\ allTx = [p \in Procs |-> <<>>]
    /\ eligible = [p \in Procs |-> <<>>]
    /\ fetchFailed = [p \in Procs |-> {}]
    /\ pending = [p \in Procs |-> NoOutcome]
    /\ teardown = [p \in Procs |-> NoTeardown]
    /\ outcome = [p \in Procs |-> NoOutcome]
    /\ counters = [p \in Procs |-> ZeroCounters]
    /\ announced = [p \in Procs |-> "none"]
    /\ ledgerCalls = [p \in Procs |-> {}]
    /\ server = ServerStart

Init ==
    /\ ledger = MainLedger
    /\ catalog = MainCatalog
    /\ env \in [dry : BOOLEAN, batch : BatchEnvValues]
    /\ file = NoFile
    /\ xanoCalls = [t \in TxIds |-> 0]
    /\ supervisor = SupervisorUp
    /\ reply = NoReply
    /\ dashboard = DashboardUp
    /\ chain = NoChain
    /\ ProcInit

Next ==
    \E p \in Procs :
        \/ ScheduledTrigger(p)
        \/ HpProcessTrigger(p)
        \/ InitializeOk(p)
        \/ InitializeFails(p)
        \/ Fetch(p)
        \/ NoEligible(p)
        \/ BeginBatch(p)
        \/ FetchThrows(p)
        \/ ProcessDryRun(p)
        \/ SubmitOk(p)
        \/ SubmitFails(p)
        \/ \E written \in BOOLEAN : AddNoteTag(p, written)
        \/ \E saved \in BOOLEAN : Persist(p, saved)
        \/ Finish(p)
        \/ \E ok \in BOOLEAN : ShutdownActualBudget(p, ok)

Spec == Init /\ [][Next]_vars

(***************************************************************************)
(* The fetch step alone, over many ledgers                                 *)
(***************************************************************************)
\* Notes that carry '#HP-Submitted' or '#HP-Paid': alone, at the end, at the
\* start, in the middle, after a stray '#', and both.
MarkedNotes ==
    {Text(<<"#", "S">>), Text(<<"x", " ", "#", "S">>), Text(<<"#", "S", " ", "x">>),
     Text(<<"x", "#", "S", "x">>), Text(<<"#", "P">>), Text(<<"x", "#", "P", "x">>),
     Text(<<"#", "#", "S">>), Text(<<"#", "P", " ", "#", "S">>)}

\* Notes that carry neither: none, empty, plain text, and near misses.
UnmarkedNotes ==
    {NullNotes, Text(<<>>), Text(<<"x">>), Text(<<"#">>), Text(<<"S", "#">>),
     Text(<<"#", " ", "S">>), Text(<<"#", "s">>), Text(<<"#", "x", "P">>)}

LedgerInputs ==
    {[t \in TxIds |->
        CASE t = "t1" -> [account |-> "a1", category |-> c1, cleared |-> cl1, notes |-> n1]
          [] t = "t2" -> [account |-> "a2", category |-> c2, cleared |-> TRUE, notes |-> n2]
          [] OTHER    -> [account |-> a3, category |-> "c-hp1", cleared |-> TRUE,
                          notes |-> NullNotes]] :
        c1 \in CategoryValues, cl1 \in BOOLEAN, n1 \in MarkedNotes \cup UnmarkedNotes,
        c2 \in {"c-hp2", "c-food"}, n2 \in {NullNotes, Text(<<"x", "#", "S", "x">>)},
        a3 \in {"a1", "a3", "a4"}}

CatalogInputs ==
    { MainCatalog,
      \* only one category in the configured group
      [MainCatalog EXCEPT !.categories[3].group_id = "g-other"],
      \* the configured group has no categories
      [MainCatalog EXCEPT !.categories[2].group_id = "g-other",
                          !.categories[3].group_id = "g-other"],
      \* no group has the configured id or an HP name
      [MainCatalog EXCEPT !.groups[2].id = "g-biz"],
      \* a group found by its name only
      [MainCatalog EXCEPT !.groups[2].id = "g-biz", !.groups[2].name = <<"H", "P">>,
                          !.categories[2].group_id = "g-biz"],
      \* the configured group, listed after a group whose name contains "hp"
      [MainCatalog EXCEPT !.groups[1].name = <<"T", "H", "p">>] }

InitFetch ==
    /\ ledger \in LedgerInputs
    /\ catalog \in CatalogInputs
    /\ env = [dry |-> FALSE, batch |-> [set |-> FALSE, val |-> 0]]
    /\ file = NoFile
    /\ xanoCalls = [t \in TxIds |-> 0]
    /\ supervisor = SupervisorUp
    /\ reply = NoReply
    /\ dashboard = DashboardUp
    /\ chain = NoChain
    /\ ProcInit

NextFetch ==
    \/ ScheduledTrigger(1)
    \/ InitializeOk(1)
    \/ Fetch(1)

SpecFetch == InitFetch /\ [][NextFetch]_vars

(***************************************************************************)
(* One run alone, over every batch size setting                            *)
(***************************************************************************)
\* HP_MAX_TRANSACTIONS_PER_BATCH as the add-on options may export it: unset,
\* '0', positive, negative.
AnyBatchEnvValues ==
    {[set |-> FALSE, val |-> 0]} \cup {[set |-> TRUE, val |-> v] : v \in {-2, -1, 0, 1, 2}}

InitRun ==
    /\ ledger \in {MainLedger, [MainLedger EXCEPT !["t3"].cleared = TRUE]}
    /\ catalog = MainCatalog
    /\ env \in [dry : BOOLEAN, batch : AnyBatchEnvValues]
    /\ file = NoFile
    /\ xanoCalls = [t \in TxIds |-> 0]
    /\ supervisor = SupervisorUp
    /\ reply = NoReply
    /\ dashboard = DashboardUp
    /\ chain = NoChain
    /\ ProcInit

NextRun ==
    \/ ScheduledTrigger(1)
    \/ HpProcessTrigger(1)
    \/ InitializeOk(1)
    \/ InitializeFails(1)
    \/ Fetch(1)
    \/ FetchThrows(1)
    \/ NoEligible(1)
    \/ BeginBatch(1)
    \/ ProcessDryRun(1)
    \/ SubmitOk(1)
    \/ SubmitFails(1)
    \/ \E written \in BOOLEAN : AddNoteTag(1, written)
    \/ \E saved \in BOOLEAN : Persist(1, saved)
    \/ Finish(1)
    \/ \E ok \in BOOLEAN : ShutdownActualBudget(1, ok)

SpecRun == InitRun /\ [][NextRun]_vars

(***************************************************************************)
(* One run alone in which processTransaction may also throw                *)
(***************************************************************************)
NextLoop ==
    \/ NextRun
    \/ \E counted \in BOOLEAN : ProcessThrows(1, counted)

SpecLoop == InitRun /\ [][NextLoop]_vars

(***************************************************************************)
(* Runs one after another, with failing and interrupted writes and kills   *)
(***************************************************************************)
\* What an earlier run left: it submitted t2, wrote the marker to t2's notes
\* and saved its state.
PriorState ==
    [transactions |->
        ("t2" :> [id |-> "t2", category |-> "c-hp2", status |-> "submitted",
                  attempts |-> 1, error |-> "none", xano_id |-> "xid"]),
     last_processing |-> -1,
     statistics |-> [total_processed |-> 1, total_submitted |-> 1,
                     total_paid |-> 0, total_failed |-> 0]]

PriorLedger == [MainLedger EXCEPT !["t2"].notes = NewNotes(@, SubmittedTag)]

\* How much of the text an interrupted write leaves: nothing, or the opening
\* brace and the transactions.
TornLengths == {0, 2}

\* A trigger that arrives when no run is in progress.
TriggerWhenIdle(p) ==
    /\ \A q \in Procs : ~Active(q)
    /\ (ScheduledTrigger(p) \/ HpProcessTrigger(p))

InitSeq ==
    /\ ledger = PriorLedger
    /\ catalog = MainCatalog
    /\ env \in [dry : BOOLEAN, batch : {[set |-> FALSE, val |-> 0]}]
    /\ file = WrittenFile(PriorState)
    /\ xanoCalls = [t \in TxIds |-> IF t = "t2" THEN 1 ELSE 0]
    /\ supervisor = SupervisorUp
    /\ reply = NoReply
    /\ dashboard = DashboardUp
    /\ chain = NoChain
    /\ ProcInit

NextSeq ==
    \E p \in Procs :
        \/ TriggerWhenIdle(p)
        \/ InitializeOk(p)
        \/ InitializeFails(p)
        \/ Fetch(p)
        \/ FetchThrows(p)
        \/ NoEligible(p)
        \/ BeginBatch(p)
        \/ ProcessDryRun(p)
        \/ SubmitOk(p)
        \/ SubmitFails(p)
        \/ \E written \in BOOLEAN : AddNoteTag(p, written)
        \/ \E saved \in BOOLEAN : Persist(p, saved)
        \/ \E n \in TornLengths : PersistTorn(p, n)
        \/ \E n \in TornLengths : KilledWhileSaving(p, n)
        \/ Finish(p)
        \/ \E ok \in BOOLEAN : ShutdownActualBudget(p, ok)
        \/ Kill(p)

SpecSeq == InitSeq /\ [][NextSeq]_vars

(***************************************************************************)
(* loadState over the files it may find                                    *)
(***************************************************************************)
\* States that a run, of this version or another, has saved: with one or two
\* tracked transactions, with a member and an entry field the processor does
\* not know.
SavedStates ==
    { PriorState,
      [PriorState EXCEPT !.transactions =
          ("t1" :> [id |-> "t1", category |-> "c-hp1", status |-> "failed",
                    attempts |-> 2, error |-> "xano error", xano_id |-> "none"])
          @@ @],
      [m \in DOMAIN PriorState \cup {"schema"} |->
          IF m = "schema" THEN 2
          ELSE IF m = "transactions"
               THEN ("t2" :> [id |-> "t2", category |-> "c-hp2", status |-> "submitted",
                              attempts |-> 1, error |-> "none", xano_id |-> "xid",
                              memo |-> "kept"])
               ELSE PriorState[m]] }

\* What /data/hp-state.json may hold when a run starts: nothing, a saved
\* state, a write that was interrupted anywhere, the empty object '{}', an
\* object with the transactions only.
FileInputs ==
    {NoFile}
    \cup {WrittenFile(s) : s \in SavedStates}
    \cup {TornFile(s, n) : s \in SavedStates, n \in 0..4}
    \cup {[exists |-> TRUE, text |-> <<[tok |-> "{"], [tok |-> "}"]>>],
          [exists |-> TRUE,
           text |-> <<[tok |-> "{"], [tok |-> "transactions", val |-> EmptyMap],
                      [tok |-> "}"]>>]}

\* processTransaction with a state that has no transactions map: line 340
\* throws a TypeError, the catch block throws it again at line 394, the loop
\* is left and the catch at 614 rethrows.
ProcessTransactionEscapes(p) ==
    /\ pc[p] = "submitting"
    /\ "transactions" \notin DOMAIN st[p]
    /\ Leave(p, Throw("TypeError"))
    /\ Publish(p, "error")
    /\ UNCHANGED <<ledger, catalog, env, file, xanoCalls, kind, st, batch, idx, tally, allTx, eligible, fetchFailed, teardown, outcome, counters, reply, dashboard, chain, ledgerCalls, server>>

InitLoad ==
    /\ ledger \in {MainLedger, PriorLedger}
    /\ catalog = MainCatalog
    /\ env = [dry |-> FALSE, batch |-> [set |-> FALSE, val |-> 0]]
    /\ file \in FileInputs
    /\ xanoCalls = [t \in TxIds |-> 0]
    /\ supervisor = SupervisorUp
    /\ reply = NoReply
    /\ dashboard = DashboardUp
    /\ chain = NoChain
    /\ ProcInit

NextLoad ==
    \/ ScheduledTrigger(1)
    \/ HpProcessTrigger(1)
    \/ InitializeOk(1)
    \/ InitializeFails(1)
    \/ Fetch(1)
    \/ FetchThrows(1)
    \/ BeginBatch(1)
    \/ ProcessTransactionEscapes(1)
    \/ \E ok \in BOOLEAN : ShutdownActualBudget(1, ok)

SpecLoad == InitLoad /\ [][NextLoad]_vars

(***************************************************************************)
(* Runs one after another over saved state files, every write whole        *)
(***************************************************************************)
InitStore ==
    /\ ledger = PriorLedger
    /\ catalog = MainCatalog
    /\ env \in [dry : BOOLEAN, batch : {[set |-> FALSE, val |-> 0]}]
    /\ file \in {WrittenFile(s) : s \in SavedStates}
    /\ xanoCalls = [t \in TxIds |-> 0]
    /\ supervisor = SupervisorUp
    /\ reply = NoReply
    /\ dashboard = DashboardUp
    /\ chain = NoChain
    /\ ProcInit

NextStore ==
    \E p \in Procs :
        \/ TriggerWhenIdle(p)
        \/ InitializeOk(p)
        \/ InitializeFails(p)
        \/ Fetch(p)
        \/ FetchThrows(p)
        \/ NoEligible(p)
        \/ BeginBatch(p)
        \/ ProcessDryRun(p)
        \/ SubmitOk(p)
        \/ SubmitFails(p)
        \/ \E written \in BOOLEAN : AddNoteTag(p, written)
        \/ \E saved \in BOOLEAN : Persist(p, saved)
        \/ Finish(p)
        \/ \E ok \in BOOLEAN : ShutdownActualBudget(p, ok)

SpecStore == InitStore /\ [][NextStore]_vars

(***************************************************************************)
(* One run and the supervisor it publishes to                              *)
(***************************************************************************)
SupervisorAnswers == {"ok", "non2xx", "error"}

\* The supervisor starts answering otherwise: 200/201, another status, or the
\* request fails (lines 157-167).
SupervisorChanges(a) ==
    /\ a # supervisor.answer
    /\ supervisor' = [supervisor EXCEPT !.answer = a]
    /\ UNCHANGED <<ledger, catalog, env, file, xanoCalls, pc, kind, st, batch, idx, tally, allTx, eligible, fetchFailed, pending, teardown, outcome, counters, announced, reply, dashboard, chain, ledgerCalls, server>>

\* log (104-126) ends with a call of updateHASensor (125), and updateHASensor
\* without a token calls log (132): the two call each other until the call
\* stack is exhausted.  The RangeError is raised inside the async function,
\* whose catch block (171-173) calls log again, so its promise is rejected and
\* nothing handles it.  The process has no unhandledRejection handler: node
\* either only warns and the run goes on, or ends the process with exit code 1
\* when the event loop turns for the first time, which is inside
\* initializeActualBudget.
UnhandledRejection(p) ==
    /\ pc[p] = "initializing"
    /\ ~supervisor.token
    /\ Exit(p, Throw("RangeError"))
    /\ UNCHANGED <<ledger, catalog, env, file, xanoCalls, kind, teardown, announced, supervisor, reply, dashboard, chain, ledgerCalls, server>>

InitPublish ==
    /\ ledger = PriorLedger
    /\ catalog = MainCatalog
    /\ env \in [dry : BOOLEAN, batch : {[set |-> FALSE, val |-> 0]}]
    /\ file = WrittenFile(PriorState)
    /\ xanoCalls = [t \in TxIds |-> IF t = "t2" THEN 1 ELSE 0]
    /\ supervisor \in [token : BOOLEAN, answer : SupervisorAnswers, status : {"unknown"}]
    /\ reply = NoReply
    /\ dashboard = DashboardUp
    /\ chain = NoChain
    /\ ProcInit

NextPublish ==
    \/ NextRun
    \/ \E a \in SupervisorAnswers : SupervisorChanges(a)
    \/ UnhandledRejection(1)

SpecPublish == InitPublish /\ [][NextPublish]_vars

(***************************************************************************)
(* The dashboard's status query over the files it may find                 *)
(***************************************************************************)
\* `x || null` for a member that may be missing: null is written 0.
MemberOrNull(s, name) == IF name \in DOMAIN s THEN s[name] ELSE 0

\* server.js 460-465: Object.values(hpState.transactions || {}) filtered by
\* one status.
WithStatus(s, status) ==
    LET transactions == IF "transactions" \in DOMAIN s THEN s.transactions ELSE EmptyMap
    IN {transactions[t] : t \in {u \in DOMAIN transactions : transactions[u].status = status}}

\* A status query that lists the failed transactions as pending.
hpTransactions_FailedAsPending(f) ==
    LET hpState == IF f.exists THEN JSONParse(f.text) ELSE DefaultState
        readable == ~f.exists \/ JSONParses(f.text)
        List(status) == IF readable THEN WithStatus(hpState, status) ELSE {}
    IN [route |-> "hp-transactions", status |-> 200,
        pending |-> List("pending") \cup List("failed"), submitted |-> List("submitted"),
        paid |-> List("paid"), failed |-> {},
        statistics |->
            [total_pending |-> Cardinality(List("pending") \cup List("failed")),
             total_submitted |-> Cardinality(List("submitted")),
             total_paid |-> Cardinality(List("paid")),
             total_failed |-> 0,
             last_processing |->
                 IF readable THEN MemberOrNull(hpState, "last_processing") ELSE 0]]

\* server.js 441-505: the handler of GET /dashboard-api/hp-transactions reads
\* and parses the state file when it exists, and answers 200 with the tracked
\* transactions listed by status; when reading or parsing throws, it answers
\* 200 with empty lists (482-505).
hpTransactions(f) ==
    LET hpState == IF f.exists THEN JSONParse(f.text) ELSE DefaultState
        readable == ~f.exists \/ JSONParses(f.text)
        List(status) == IF readable THEN WithStatus(hpState, status) ELSE {}
    IN [route |-> "hp-transactions", status |-> 200,
        pending |-> List("pending"), submitted |-> List("submitted"),
        paid |-> List("paid"), failed |-> List("failed"),
        statistics |->
            [total_pending |-> Cardinality(List("pending")),
             total_submitted |-> Cardinality(List("submitted")),
             total_paid |-> Cardinality(List("paid")),
             total_failed |-> Cardinality(List("failed")),
             last_processing |->
                 IF readable THEN MemberOrNull(hpState, "last_processing") ELSE 0]]

\* GET /dashboard-api/hp-transactions is answered.
HpTransactionsQuery ==
    /\ reply' = hpTransactions(file)
    /\ UNCHANGED <<ledger, catalog, env, file, xanoCalls, pc, kind, st, batch, idx, tally, allTx, eligible, fetchFailed, pending, teardown, outcome, counters, announced, supervisor, dashboard, chain, ledgerCalls, server>>

NextQuery == NextLoad \/ HpTransactionsQuery

SpecQuery == InitLoad /\ [][NextQuery]_vars

(***************************************************************************)
(* The manual trigger: the spawned run, its close event, the timer         *)
(***************************************************************************)
\* res.writeHead(status) and res.end(...) for the request that spawned p.  On
\* a response that was already sent writeHead throws ERR_HTTP_HEADERS_SENT;
\* neither the timer callback (565-578) nor the catch block of the close
\* handler (550-561) catches it, and the uncaughtException handler (669-672)
\* calls process.exit(1).
WriteHead(d, p, status) ==
    IF d.req[p].responses = 0
    THEN [d EXCEPT !.req[p].responses = 1, !.req[p].status = status]
    ELSE [d EXCEPT !.up = FALSE]

\* hpProcessor.on('close', ...), lines 532-562.
HpProcessClosed(p) ==
    /\ dashboard.up
    /\ dashboard.req[p].open
    /\ ~dashboard.req[p].closed
    /\ pc[p] = "exited"
    /\ dashboard' = [WriteHead(dashboard, p, HpProcessClose(outcome[p]).status)
                        EXCEPT !.req[p].closed = TRUE]
    /\ UNCHANGED <<ledger, catalog, env, file, xanoCalls, pc, kind, st, batch, idx, tally, allTx, eligible, fetchFailed, pending, teardown, outcome, counters, announced, supervisor, reply, chain, ledgerCalls, server>>

\* The timer of line 565 fires while the child runs: hpProcessor.killed is
\* false, kill() sends SIGTERM (the child's handler exits with code 0), and
\* 408 is written.
HpProcessTimeoutKills(p) ==
    /\ dashboard.up
    /\ dashboard.req[p].timer
    /\ Active(p)
    /\ Exit(p, Killed)
    /\ dashboard' = [WriteHead(dashboard, p, 408) EXCEPT !.req[p].timer = FALSE]
    /\ UNCHANGED <<ledger, catalog, env, file, xanoCalls, kind, teardown, announced, supervisor, reply, chain, ledgerCalls, server>>

\* The timer fires after the child has exited: nothing cleared it, and
\* hpProcessor.killed is still false because kill() was never called, so 408
\* is written all the same.
HpProcessTimeoutLate(p) ==
    /\ dashboard.up
    /\ dashboard.req[p].timer
    /\ pc[p] = "exited"
    /\ dashboard' = [WriteHead(dashboard, p, 408) EXCEPT !.req[p].timer = FALSE]
    /\ UNCHANGED <<ledger, catalog, env, file, xanoCalls, pc, kind, st, batch, idx, tally, allTx, eligible, fetchFailed, pending, teardown, outcome, counters, announced, supervisor, reply, chain, ledgerCalls, server>>

InitTrigger ==
    /\ ledger = PriorLedger
    /\ catalog = MainCatalog
    /\ env \in [dry : BOOLEAN, batch : {[set |-> FALSE, val |-> 0]}]
    /\ file = WrittenFile(PriorState)
    /\ xanoCalls = [t \in TxIds |-> IF t = "t2" THEN 1 ELSE 0]
    /\ supervisor = SupervisorUp
    /\ reply = NoReply
    /\ dashboard = DashboardUp
    /\ chain = NoChain
    /\ ProcInit

NextTrigger ==
    \/ NextRun
    \/ HpProcessClosed(1)
    \/ HpProcessTimeoutKills(1)
    \/ HpProcessTimeoutLate(1)

SpecTrigger == InitTrigger /\ [][NextTrigger]_vars

(***************************************************************************)
(* log and updateHASensor                                                  *)
(***************************************************************************)
MaxChain == 5

\* What becomes of one updateHASensor call: nothing is sent without a token
\* (131-134); otherwise the supervisor's answer or the request error.
PublicationOutcome == IF supervisor.token THEN supervisor.answer ELSE "skipped"

\* The run calls log (104-126): the line is printed and appended, and line
\* 125 calls updateHASensor for the last_processing sensor.
LogCalled(p) ==
    /\ Active(p)
    /\ chain' = [attempts |-> 1, last |-> "none"]
    /\ UNCHANGED <<ledger, catalog, env, file, xanoCalls, pc, kind, st, batch, idx, tally, allTx, eligible, fetchFailed, pending, teardown, outcome, counters, announced, supervisor, reply, dashboard, ledgerCalls, server>>

\* The outcome of the latest updateHASensor call is handled: every branch
\* calls log (132 without a token, 159 for 200/201, 161 for another status,
\* 166 for a request error), and log calls updateHASensor again (125).
OutcomeHandled(p) ==
    /\ Active(p)
    /\ chain.attempts >= 1
    /\ chain.attempts < MaxChain
    /\ chain' = [attempts |-> chain.attempts + 1, last |-> PublicationOutcome]
    /\ UNCHANGED <<ledger, catalog, env, file, xanoCalls, pc, kind, st, batch, idx, tally, allTx, eligible, fetchFailed, pending, teardown, outcome, counters, announced, supervisor, reply, dashboard, ledgerCalls, server>>

NextLog ==
    \/ NextPublish
    \/ LogCalled(1)
    \/ OutcomeHandled(1)

SpecLog == InitPublish /\ [][NextLog]_vars

(***************************************************************************)
(* Properties                                                              *)
(***************************************************************************)
HPIdsNow == Range(HPCategoryIds(catalog.groups, catalog.categories, ConfiguredGroupId))
EligibleIds(p) == {eligible[p][i].id : i \in 1..Len(eligible[p])}
AllIds(p) == {allTx[p][i].id : i \in 1..Len(allTx[p])}
FetchedFrom(p, t) == ledger[t].account \in OnBudgetIds \ fetchFailed[p]

\* No other run is in progress beside p.
Alone(p) == \A q \in Procs \ {p} : ~Active(q)

\* The run q, with no other run in progress, is at a transaction that the
\* state it loaded already holds as submitted.
KnowsSubmitted(q) ==
    /\ pc[q] = "submitting"
    /\ Alone(q)
    /\ LET t == batch[q][idx[q]].id
       IN /\ t \in DOMAIN st[q].transactions
          /\ st[q].transactions[t].status = "submitted"

\* C1: at-most-once external submission.  Once a transaction is marked
\* submitted in ProcessingState, no later run calls submitToXano for it, even
\* when the tag write failed after the submission.  Stated for a later run
\* that does not overlap any other.
C1_AtMostOnceSubmission ==
    [][\A q \in Procs : KnowsSubmitted(q) => ~(SubmitOk(q) \/ SubmitFails(q))]_vars

\* C2: a manual trigger that arrives while a run is active starts no second
\* run.
C2_ManualTriggerRejected ==
    [][\A p \in Procs : HpProcessTrigger(p) => ~(\E q \in Procs : Active(q))]_vars

\* C3: at most one run is in progress at any time, whatever the interleaving
\* of scheduled and manual triggers.
C3_SingleRun == Cardinality({p \in Procs : Active(p)}) <= 1

\* C4: the eligible array holds exactly the fetched transactions that are
\* cleared, whose category is one of the HP category ids and whose notes
\* carry neither marker, each once; a missing category excludes, missing
\* notes count as unmarked.
C4_EligibleExactly ==
    \A p \in Procs : pc[p] = "fetched" =>
        /\ \A t \in TxIds :
              t \in EligibleIds(p) <=>
                  /\ FetchedFrom(p, t)
                  /\ ledger[t].cleared
                  /\ ledger[t].category \in HPIdsNow
                  /\ ledger[t].notes \in UnmarkedNotes
        /\ Len(eligible[p]) = Cardinality(EligibleIds(p))

C4_Witness ==
    /\ pc[1] = "fetched"
    /\ EligibleIds(1) = {"t1", "t3"}
    /\ ledger["t1"].notes = NullNotes
    /\ ledger["t2"].category = "c-food"

\* C5: a transaction whose notes contain the submitted or the paid marker at
\* any position is never selected as eligible.
C5_MarkedNeverEligible ==
    \A p \in Procs : \A i \in 1..Len(eligible[p]) : eligible[p][i].notes \notin MarkedNotes

C5_Witness ==
    /\ pc[1] = "fetched"
    /\ catalog = MainCatalog
    /\ "a1" \notin fetchFailed[1]
    /\ ledger["t1"].cleared
    /\ ledger["t1"].category = "c-hp1"
    /\ ledger["t1"].notes = Text(<<"x", "#", "P", "x">>)
    /\ "t1" \notin EligibleIds(1)
    /\ "t3" \in EligibleIds(1)

StatusRank(s) == CASE s = "pending" -> 0 [] s = "submitted" -> 1 [] s = "paid" -> 2
                   [] OTHER -> -1

\* pending -> submitted -> paid, or a diversion to failed.
AllowedStatusChange(a, b) ==
    \/ a = b
    \/ b = "failed"
    \/ (a # "failed" /\ b # "failed" /\ StatusRank(a) < StatusRank(b))

\* The entries a run holds before and after a step of its own, taken while
\* no other run is in progress.
KeptEntries(p) ==
    IF Active(p) /\ Alone(p) /\ pc'[p] # "exited"
    THEN DOMAIN st[p].transactions \cap DOMAIN st'[p].transactions
    ELSE {}

\* C6: every status change of a tracked transaction is an advance along
\* pending -> submitted -> paid or a diversion to failed; submitted and paid
\* never move back.  Stated for runs that do not overlap.
C6_StatusOnlyAdvances ==
    [][\A p \in Procs : \A t \in KeptEntries(p) :
          AllowedStatusChange(st[p].transactions[t].status,
                              st'[p].transactions[t].status)]_vars

\* C7: a normal run never re-attempts or resets a tracked transaction that is
\* already failed: its entry is left as it is.  Stated for runs that do not
\* overlap.
C7_FailedUntouched ==
    [][\A p \in Procs : \A t \in KeptEntries(p) :
          st[p].transactions[t].status = "failed" =>
              st'[p].transactions[t] = st[p].transactions[t]]_vars

PersistedAttempts(f, t) ==
    IF t \in DOMAIN loadState(f).transactions
    THEN loadState(f).transactions[t].attempts ELSE 0

MemoryAttempts(p, t) ==
    IF t \in DOMAIN st[p].transactions THEN st[p].transactions[t].attempts ELSE 0

\* C8: the attempts of a transaction never decrease across runs that reload
\* the persisted state, and each processing adds exactly one.
C8_AttemptsMonotone ==
    [][/\ \A t \in TxIds : PersistedAttempts(file', t) >= PersistedAttempts(file, t)
       /\ \A p \in Procs :
             (ProcessDryRun(p) \/ SubmitOk(p) \/ SubmitFails(p)) =>
                 LET t == batch[p][idx[p]].id
                 IN st'[p].transactions[t].attempts = MemoryAttempts(p, t) + 1]_vars

\* C9: the number of transactions processTransaction is invoked for is
\* min(eligible_count, hp_max_transactions_per_batch).
C9_BatchBound ==
    \A p \in Procs : pc[p] = "persisting" =>
        tally[p].processed =
            MathMin(Len(eligible[p]), loadConfiguration(env).hp_max_transactions_per_batch)

\* C10: when getTransactions fails for an account the run goes on, and the
\* candidates are exactly the HP transactions of the accounts that answered.
C10_PartialFetch ==
    \A p \in Procs : (pc[p] = "fetched" /\ fetchFailed[p] # {} /\ HPIdsNow # {}) =>
        /\ \A t \in TxIds :
              t \in AllIds(p) <=>
                  (FetchedFrom(p, t) /\ ledger[t].category \in HPIdsNow)
        /\ Len(allTx[p]) = Cardinality(AllIds(p))
        /\ outcome[p] = NoOutcome

C10_Witness ==
    /\ pc[1] = "fetched"
    /\ fetchFailed[1] = {"a1"}
    /\ ledger["t1"].category = "c-hp1"
    /\ AllIds(1) = {"t2"}
    /\ EligibleIds(1) = {"t2"}

PersistedTransactions == loadState(file).transactions
TrackedIds(p) == DOMAIN st[p].transactions
BatchIds(p) == {batch[p][i].id : i \in 1..Len(batch[p])}
CountsOf(processed, submitted, failed) ==
    Success([processed |-> processed, submitted |-> submitted, failed |-> failed])

\* C11: a dry run that starts from an empty state and finds n eligible
\* transactions, n within the batch size, returns {processed: n, submitted: n,
\* failed: 0}; its state gains exactly those n entries, all submitted, and so
\* does the file it saved.
C11_DryRunCounts ==
    \A p \in Procs :
        /\ (/\ pc[p] = "finally"
            /\ pending[p].success
            /\ loadConfiguration(env).hp_dry_run_mode
            /\ Len(eligible[p]) <= loadConfiguration(env).hp_max_transactions_per_batch)
           => /\ pending[p] = CountsOf(Len(eligible[p]), Len(eligible[p]), 0)
              /\ TrackedIds(p) = EligibleIds(p)
              /\ Cardinality(TrackedIds(p)) = Len(eligible[p])
              /\ \A t \in TrackedIds(p) : st[p].transactions[t].status = "submitted"
        /\ (/\ pc[p] = "exited"
            /\ outcome[p].success
            /\ loadConfiguration(env).hp_dry_run_mode
            /\ file.exists)
           => /\ outcome[p].submitted = outcome[p].processed
              /\ outcome[p].failed = 0
              /\ Cardinality(DOMAIN PersistedTransactions) = outcome[p].processed
              /\ \A t \in DOMAIN PersistedTransactions :
                    PersistedTransactions[t].status = "submitted"

C11_Witness ==
    /\ pc[1] = "exited"
    /\ loadConfiguration(env).hp_dry_run_mode
    /\ loadConfiguration(env).hp_max_transactions_per_batch = DefaultBatch
    /\ outcome[1] = CountsOf(3, 3, 0)
    /\ DOMAIN PersistedTransactions = TxIds
    /\ xanoCalls = [t \in TxIds |-> 0]

\* The batch items of run p whose tracked entry says failed.
FailedIds(p) ==
    {t \in BatchIds(p) \cap TrackedIds(p) : st[p].transactions[t].status = "failed"}

\* C12: a run that is not a dry run, over n batch items of which Xano refuses
\* k, returns {processed: n, submitted: n - k, failed: k}; each refused item
\* is tracked as failed with the error message and, processed for the first
\* time, attempts 1; each of the n items was posted once.
C12_FailureCounts ==
    \A p \in Procs :
        (/\ pc[p] = "finally"
         /\ pending[p].success
         /\ ~loadConfiguration(env).hp_dry_run_mode
         /\ Len(eligible[p]) > 0)
        => LET n == Len(batch[p])
               k == Cardinality(FailedIds(p))
           IN /\ pending[p] = CountsOf(n, n - k, k)
              /\ TrackedIds(p) = BatchIds(p)
              /\ \A t \in BatchIds(p) : xanoCalls[t] = 1
              /\ \A t \in FailedIds(p) :
                    /\ st[p].transactions[t].error = "xano error"
                    /\ st[p].transactions[t].attempts = 1
              /\ \A t \in BatchIds(p) \ FailedIds(p) :
                    /\ st[p].transactions[t].status = "submitted"
                    /\ st[p].transactions[t].error = "none"

C12_Witness ==
    /\ pc[1] = "exited"
    /\ ~loadConfiguration(env).hp_dry_run_mode
    /\ outcome[1] = CountsOf(3, 2, 1)
    /\ DOMAIN PersistedTransactions = TxIds
    /\ PersistedTransactions["t2"].status = "failed"
    /\ PersistedTransactions["t2"].error = "xano error"
    /\ PersistedTransactions["t2"].attempts = 1
    /\ PersistedTransactions["t1"].status = "submitted"

InLoop(p) == pc[p] \in {"submitting", "tagging"}
PastLoop(p) == pc[p] \in {"persisting", "completed"}

\* The items of the batch in order: those processTransaction has returned for
\* were attempted once, those after the current one not at all.
AttemptedInOrder(p) ==
    LET done == tally[p].processed
        current == IF pc[p] = "tagging" THEN done + 1 ELSE done
    IN /\ done <= Len(batch[p])
       /\ tally[p].submitted + tally[p].failed = done
       /\ idx[p] = done + 1
       /\ \A j \in 1..Len(batch[p]) :
             LET t == batch[p][j].id
             IN /\ j <= done =>
                      /\ (t \in TrackedIds(p) => st[p].transactions[t].attempts = 1)
                      /\ xanoCalls[t] <= 1
                /\ j > current =>
                      /\ t \notin TrackedIds(p)
                      /\ xanoCalls[t] = 0

\* C13: a failure while processing one transaction never aborts the batch.
\* Whatever the outcomes of the items before it, every item of the truncated
\* batch is attempted exactly once, in order: the loop is left only for the
\* persisting step, and then every item has been processed.
C13_BatchNeverAborted ==
    /\ [](\A p \in Procs :
            /\ (InLoop(p) \/ PastLoop(p)) => AttemptedInOrder(p)
            /\ PastLoop(p) => tally[p].processed = Len(batch[p]))
    /\ [][\A p \in Procs : InLoop(p) => (InLoop(p) \/ pc[p] = "persisting")']_vars

C13_Witness ==
    /\ pc[1] = "persisting"
    /\ ~loadConfiguration(env).hp_dry_run_mode
    /\ Len(batch[1]) = 3
    /\ tally[1] = [processed |-> 3, submitted |-> 1, failed |-> 2]
    /\ TrackedIds(1) = TxIds
    /\ st[1].transactions["t1"].error = "exception"
    /\ st[1].transactions["t2"].error = "xano error"
    /\ st[1].transactions["t3"].status = "submitted"

\* The step in which run p's result or error reaches main.
ReachesCaller(p) == pc[p] # "exited" /\ pc'[p] = "exited"

\* C14: on every exit path of processAllTransactions (the normal return, the
\* early return, a failed initialization, a failed fetch, a failed save) the
\* teardown is attempted exactly once before the result or error reaches the
\* caller, and a teardown error does not replace the run's outcome.
C14_TeardownOnce ==
    /\ [](\A p \in Procs :
            /\ pc[p] = "exited" => teardown[p].calls = 1
            /\ pc[p] # "exited" => (teardown[p].calls = 0 /\ outcome[p] = NoOutcome))
    /\ [][\A p \in Procs : ReachesCaller(p) =>
              /\ pc[p] = "finally"
              /\ teardown'[p].calls = teardown[p].calls + 1
              /\ outcome'[p] = pending[p]
              /\ outcome'[p] \in {Throw("init"), Throw("fetch"), Success(tally[p])}]_vars

C14_Witness ==
    /\ pc[1] = "exited"
    /\ outcome[1] = Throw("init")
    /\ teardown[1] = [calls |-> 1, rejected |-> TRUE]

\* Run p's initialization has failed and the error is on its way to main.
InitFailed(p) == pc[p] = "finally" /\ pending[p] = Throw("init")

\* C15: when the ledger connection cannot be established the run is aborted
\* and the error reaches the caller; nothing is fetched, Xano is not called,
\* no note is written, and neither the state in memory (still what loadState
\* returned) nor the file is changed.
C15_InitFailureTouchesNothing ==
    /\ [](\A p \in Procs : InitFailed(p) =>
              /\ st[p] = loadState(file)
              /\ allTx[p] = <<>> /\ eligible[p] = <<>> /\ batch[p] = <<>>
              /\ tally[p] = ZeroTally)
    /\ [][\A p \in Procs :
              /\ InitializeFails(p) =>
                    (InitFailed(p)' /\ st'[p] = st[p] /\ UNCHANGED <<file, ledger, xanoCalls>>)
              /\ (InitFailed(p) /\ teardown'[p] # teardown[p]) =>
                    (outcome'[p] = Throw("init") /\ UNCHANGED <<file, ledger, xanoCalls>>)]_vars

C15_Witness ==
    /\ pc[1] = "exited"
    /\ outcome[1] = Throw("init")
    /\ InitFailed(2)
    /\ st[2] = PriorState
    /\ file = WrittenFile(PriorState)

\* Statistics b are statistics a plus the counts t of one run.
IncreasedBy(a, b, t) ==
    /\ b.total_processed = a.total_processed + t.processed
    /\ b.total_submitted = a.total_submitted + t.submitted
    /\ b.total_failed = a.total_failed + t.failed
    /\ b.total_paid = a.total_paid

\* The persisting step of run p, and the one in which the write went through.
Persisting(p) == pc[p] = "persisting" /\ pc'[p] = "completed"
Saving(p) == Persisting(p) /\ file' # file /\ JSONParses(file'.text)

\* C16: in the persisting step the statistics grow by exactly this run's
\* processed, submitted and failed counts, and what is then written is the
\* whole state: the file is replaced by the text of the state in memory, with
\* the grown statistics and every tracked change of the run.  With runs one
\* after another the saved statistics are the previous file's plus the counts.
C16_PersistWritesWholeState ==
    [][\A p \in Procs :
          /\ Persisting(p) =>
                /\ IncreasedBy(st[p].statistics, st'[p].statistics, tally[p])
                /\ st'[p].transactions = st[p].transactions
                /\ BatchIds(p) \subseteq TrackedIds(p)
          /\ Saving(p) =>
                /\ file' = WrittenFile(st'[p])
                /\ loadState(file') = st'[p]
                /\ IncreasedBy(loadState(file).statistics,
                               loadState(file').statistics, tally[p])]_vars

C16_Witness ==
    /\ pc[1] = "completed"
    /\ file = WrittenFile(st[1])
    /\ tally[1] = [processed |-> 1, submitted |-> 0, failed |-> 1]
    /\ st[1].statistics = [total_processed |-> 2, total_submitted |-> 1,
                           total_paid |-> 0, total_failed |-> 1]
    /\ DOMAIN PersistedTransactions = {"t1", "t2"}

\* C17: every run that completes without error, whatever the number of
\* eligible transactions it found, zero included, has called saveState (which
\* stamps last_processing with the time of this run) before it returns its
\* counts.  Stated for a run in which every account answered, on a state
\* file that reads back, after runs that completed.
C17_EveryRunSaves ==
    \A p \in Procs :
        (/\ pc[p] = "finally" /\ pending[p].success
         /\ fetchFailed[p] = {}
         /\ JSONParses(file.text)
         /\ \A q \in Procs \ {p} : pc[q] = "exited" => outcome[q].success)
        => st[p].last_processing = p

\* The file holds the complete text of one whole state.
CompleteSnapshot(f) ==
    f.exists /\ JSONParses(f.text) /\ f = WrittenFile(loadState(f))

\* The file holds a text that JSON.parse rejects.
TornSnapshot(f) == f.exists /\ ~JSONParses(f.text)

\* Run p dies in this step: a signal, or a crash inside the write.
Dies(p) == pc[p] # "exited" /\ pc'[p] = "exited" /\ outcome'[p] \in {Killed, Crashed}

\* C18: a crash or kill at any point of a run leaves the file as it was, a
\* complete snapshot, or torn in a way loadState detects; the file changes
\* only in the persisting step of a run, by one write that replaces it; and
\* loadState never hands a run a partially written state: a run starts from
\* the complete snapshot in the file or, the file being torn, from the
\* default state.
C18_CrashLeavesWholeOrTorn ==
    /\ [](/\ CompleteSnapshot(file) \/ TornSnapshot(file)
          /\ TornSnapshot(file) => loadState(file) = DefaultState
          /\ \A p \in Procs : pc[p] = "initializing" =>
                \/ CompleteSnapshot(file) /\ st[p] = loadState(file)
                \/ TornSnapshot(file) /\ st[p] = DefaultState)
    /\ [][\A p \in Procs :
              /\ Dies(p) => (file' = file \/ TornSnapshot(file'))
              /\ (file' # file /\ pc'[p] # pc[p]) =>
                    /\ pc[p] = "persisting"
                    /\ file' = WrittenFile(st'[p]) \/ TornSnapshot(file')]_vars

C18_Witness ==
    /\ pc[1] = "exited"
    /\ outcome[1] = Crashed
    /\ TornSnapshot(file)
    /\ Len(file.text) = 2
    /\ DOMAIN file.text[2].val = {"t1", "t2"}
    /\ pc[2] = "initializing"
    /\ st[2] = DefaultState

\* C19: tracked entries are append-only.  An identifier present in the
\* persisted transactions (here those the earlier run saved) is present in
\* every later complete snapshot, and no write of a snapshot over a snapshot
\* drops an entry.
C19_EntriesNeverRemoved ==
    /\ [](CompleteSnapshot(file) =>
              DOMAIN PriorState.transactions \subseteq DOMAIN PersistedTransactions)
    /\ [][(CompleteSnapshot(file) /\ CompleteSnapshot(file')) =>
              DOMAIN loadState(file).transactions \subseteq
                  DOMAIN loadState(file').transactions]_vars

\* Run p is past saveState and the file does not hold its state: the save
\* failed.
SaveFailed(p) ==
    /\ pc[p] \in {"completed", "finally"}
    /\ Len(batch[p]) > 0
    /\ file # WrittenFile(st[p])

\* C20: a failed saveState does not crash the run.  The run still returns its
\* {processed, submitted, failed} counts as a success, and the state in memory
\* keeps every change of the run: the tracked entries, the statistics and the
\* timestamp.
C20_FailedSaveKeepsRunning ==
    /\ [](\A p \in Procs : SaveFailed(p) =>
              /\ BatchIds(p) \subseteq TrackedIds(p)
              /\ \A t \in BatchIds(p) : st[p].transactions[t].status \in {"submitted", "failed"}
              /\ st[p].last_processing = p
              /\ tally[p].processed = Len(batch[p])
              /\ pc[p] = "finally" => pending[p] = Success(tally[p]))
    /\ [][\A p \in Procs :
              /\ (Persisting(p) /\ ~Saving(p)) =>
                    /\ IncreasedBy(st[p].statistics, st'[p].statistics, tally[p])
                    /\ st'[p].transactions = st[p].transactions
              /\ (SaveFailed(p) /\ ReachesCaller(p) /\ ~Dies(p)) =>
                    outcome'[p] = Success(tally[p])]_vars

C20_Witness ==
    /\ pc[1] = "finally"
    /\ file = WrittenFile(PriorState)
    /\ pending[1] = CountsOf(1, 1, 0)
    /\ TrackedIds(1) = {"t1", "t2"}
    /\ st[1].statistics.total_processed = 2
    /\ st[1].last_processing = 1

Loading(p) == pc[p] = "notStarted" /\ pc'[p] = "initializing"

C23_PublicationNeverDecides ==
    \A p \in Procs : pc[p] = "exited" =>
        \/ outcome[p].success /\ outcome[p].code = 0
        \/ outcome[p].error \in {"init", "fetch"}

\* C24: a run whose batch had failed and successful submissions is reported
\* to its trigger as a success with its counts (exit code 0, and 200 with
\* success to the dashboard); a run in which every submission of a non-empty
\* batch failed is reported as a failure.
C24_AllFailedIsFailure ==
    \A p \in Procs : pc[p] = "exited" /\ outcome[p].failed > 0 =>
        IF outcome[p].failed < outcome[p].processed
        THEN /\ outcome[p].success /\ outcome[p].code = 0
             /\ outcome[p].processed = outcome[p].submitted + outcome[p].failed
             /\ kind[p] = "manual" => HpProcessClose(outcome[p]).status = 200
        ELSE /\ ~outcome[p].success /\ outcome[p].code # 0
             /\ kind[p] = "manual" => ~HpProcessClose(outcome[p]).success

\* Run p finishes the processing of one batch item in this step.
ItemDone(p) == pc[p] \in {"submitting", "tagging"} /\ idx'[p] = idx[p] + 1

\* C25: with the dry-run flag set no step of a run calls Xano or writes to
\* the ledger; processing a transaction only marks its tracked entry
\* submitted, counts the attempt and returns a success (the run's submitted
\* count goes up by one, its failed count stays).
C25_DryRunTouchesNothing ==
    [][loadConfiguration(env).hp_dry_run_mode =>
          /\ xanoCalls' = xanoCalls
          /\ ledger' = ledger
          /\ \A p \in Procs : ItemDone(p) =>
                LET t == batch[p][idx[p]]
                IN /\ pc[p] = "submitting"
                   /\ file' = file
                   /\ st'[p].transactions[t.id].status = "submitted"
                   /\ \A u \in DOMAIN st[p].transactions \ {t.id} :
                          st'[p].transactions[u] = st[p].transactions[u]
                   /\ DOMAIN st'[p].transactions = DOMAIN st[p].transactions \cup {t.id}
                   /\ tally'[p] = [tally[p] EXCEPT !.processed = @ + 1,
                                                   !.submitted = @ + 1]]_vars

\* A dry run is past its loop over two transactions: both are tracked as
\* submitted, Xano was never called, no note carries the marker.
C25_Witness ==
    /\ pc[1] = "persisting"
    /\ loadConfiguration(env).hp_dry_run_mode
    /\ tally[1] = [processed |-> 2, submitted |-> 2, failed |-> 0]
    /\ TrackedIds(1) = {"t1", "t2"}
    /\ \A t \in TrackedIds(1) : st[1].transactions[t].status = "submitted"
    /\ xanoCalls = [t \in TxIds |-> 0]
    /\ \A t \in TxIds : ~Includes(NotesOrEmpty(ledger[t].notes), SubmittedTag)

\* The tracked transactions of the snapshot the file holds: none when there
\* is no file or the file does not hold a whole object.
SnapshotTransactions ==
    IF file.exists /\ JSONParses(file.text) /\ "transactions" \in DOMAIN JSONParse(file.text)
    THEN JSONParse(file.text).transactions
    ELSE EmptyMap

StatusLists == {"pending", "submitted", "paid", "failed"}

\* C26: the status query changes nothing but the response, the state file
\* least of all; and the response's pending, submitted, paid and failed lists
\* are the tracked transactions of the snapshot, each under its status, the
\* totals are the lengths of the lists, and last_processing is the snapshot's.
C26_QueryReadOnly ==
    /\ [][reply' # reply =>
            /\ file' = file
            /\ UNCHANGED <<ledger, xanoCalls, st, pc, outcome, supervisor>>
            /\ \A l \in StatusLists :
                  reply'[l] = {SnapshotTransactions[t] :
                                 t \in {u \in DOMAIN SnapshotTransactions :
                                          SnapshotTransactions[u].status = l}}
            /\ reply'.pending \cup reply'.submitted \cup reply'.paid \cup reply'.failed
                  = {SnapshotTransactions[t] : t \in DOMAIN SnapshotTransactions}
            /\ reply'.statistics.total_pending = Cardinality(reply'.pending)
            /\ reply'.statistics.total_submitted = Cardinality(reply'.submitted)
            /\ reply'.statistics.total_paid = Cardinality(reply'.paid)
            /\ reply'.statistics.total_failed = Cardinality(reply'.failed)
            /\ reply'.statistics.last_processing =
                  (IF file.exists /\ JSONParses(file.text)
                      /\ "last_processing" \in DOMAIN JSONParse(file.text)
                   THEN JSONParse(file.text).last_processing ELSE 0)
            /\ reply'.status = 200]_vars

\* A query was answered from a file that tracks a failed and a submitted
\* transaction, while a run was under way.
C26_Witness ==
    /\ reply.route = "hp-transactions"
    /\ Cardinality(reply.failed) = 1
    /\ Cardinality(reply.submitted) = 1
    /\ reply.statistics.last_processing = -1
    /\ file = WrittenFile(loadState(file))
    /\ Active(1)

\* updateCounters has run in run p: the run returned from its try block.
Counted(p) == pc[p] = "finally" /\ pending[p].success

\* C27: after updateCounters each of the counters pending, submitted, paid
\* and failed is the number of tracked transactions of the state with that
\* status, whatever the per-item increments of the run had added up to.
C27_CountersRecomputed ==
    \A p \in Procs : Counted(p) =>
        /\ \A s \in StatusLists :
              counters[p][s] =
                  Cardinality({t \in TrackedIds(p) : st[p].transactions[t].status = s})
        /\ counters[p].pending + counters[p].submitted + counters[p].paid
              + counters[p].failed = Cardinality(TrackedIds(p))

\* A run over a state that tracked a submitted transaction has processed one
\* more, which failed: the increments added up to one failure and no
\* submission, the counters say one of each.
C27_Witness ==
    /\ Counted(1)
    /\ pending[1].failed = 1
    /\ pending[1].submitted = 0
    /\ counters[1] = [pending |-> 0, submitted |-> 1, paid |-> 0, failed |-> 1]

AccountIndex(a) == CHOOSE i \in 1..Len(Accounts) : Accounts[i].id = a
TxIndex(t) == CHOOSE i \in 1..Len(TxOrder) : TxOrder[i] = t

\* x comes before y in the input: its account is listed earlier, or it is
\* fetched earlier within the same account.
Before(x, y) ==
    \/ AccountIndex(x.account) < AccountIndex(y.account)
    \/ x.account = y.account /\ TxIndex(x.id) < TxIndex(y.id)

\* C28: the eligible list is in input order (accounts in listing order,
\* transactions in fetch order within an account), and the batch of a run is
\* the first min(eligible_count, batch_size) elements of that list, processed
\* in that order.
C28_BatchIsPrefixInOrder ==
    \A p \in Procs : (InLoop(p) \/ PastLoop(p)) =>
        /\ \A i, j \in 1..Len(eligible[p]) :
              i < j => Before(eligible[p][i], eligible[p][j])
        /\ batch[p] = SubSeq(eligible[p], 1,
                             MathMin(Len(eligible[p]),
                                     loadConfiguration(env).hp_max_transactions_per_batch))
        /\ AttemptedInOrder(p)

HasMarker(t) == Includes(NotesOrEmpty(ledger[t].notes), SubmittedTag)

\* C29: in a run that is not a dry run the marker is written to a
\* transaction's notes only after Xano accepted that transaction in this run;
\* the notes written are the previous notes followed by the marker; the
\* tracked entry then says submitted and holds the export identifier; and a
\* transaction whose submission failed gets no marker.
C29_MarkerAfterSuccess ==
    /\ [](\A t \in TxIds : \A p \in Procs :
            /\ HasMarker(t) => xanoCalls[t] >= 1
            /\ (t \in TrackedIds(p) /\ st[p].transactions[t].status = "failed")
                  => ~HasMarker(t))
    /\ [][\A t \in TxIds : ledger'[t] # ledger[t] =>
            \E p \in Procs :
                LET previous == NotesOrEmpty(ledger[t].notes)
                    written == ledger'[t].notes.text
                IN /\ pc[p] = "tagging"
                   /\ batch[p][idx[p]].id = t
                   /\ ~loadConfiguration(env).hp_dry_run_mode
                   /\ xanoCalls[t] >= 1
                   /\ st[p].transactions[t].status = "submitted"
                   /\ st[p].transactions[t].xano_id # "none"
                   /\ st'[p].transactions[t] = st[p].transactions[t]
                   /\ ledger'[t] = [ledger[t] EXCEPT !.notes = ledger'[t].notes]
                   /\ SubSeq(written, 1, Len(previous)) = previous
                   /\ SubSeq(written, Len(written) - Len(SubmittedTag) + 1, Len(written))
                         = SubmittedTag
                   /\ \A u \in TxIds \ {t} : ledger'[u] = ledger[u]]_vars

\* One run: Xano refused t1 and accepted t2, whose notes were "x".
C29_Witness ==
    /\ PastLoop(1)
    /\ TrackedIds(1) = {"t1", "t2"}
    /\ st[1].transactions["t1"].status = "failed"
    /\ ledger["t1"].notes = NullNotes
    /\ st[1].transactions["t2"].status = "submitted"
    /\ st[1].transactions["t2"].xano_id = "xid"
    /\ ledger["t2"].notes = Text(<<"x", " ">> \o SubmittedTag)
    /\ xanoCalls = [t \in TxIds |-> IF t = "t3" THEN 0 ELSE 1]

FinalStatuses == {"idle", "completed", "error"}

\* C30: a run publishes the automation status running only once its ledger
\* connection is established, and the last automation status a run has
\* published when it ends is idle (nothing was eligible), completed (a batch
\* was processed) or error (the run raised), never running.
C30_LastStatusFinal ==
    /\ [](\A p \in Procs : (pc[p] = "exited" /\ announced[p] # "none") =>
            /\ announced[p] \in FinalStatuses
            /\ announced[p] = "idle" => outcome[p] = Success(ZeroTally)
            /\ announced[p] = "completed" => outcome[p].success
            /\ announced[p] = "error" => ~outcome[p].success)
    /\ [][\A p \in Procs : (announced'[p] = "running" /\ announced[p] # "running") =>
            pc[p] = "initializing" /\ pc'[p] = "fetching"]_vars

\* The categories of the group whose id is the configured one.
ConfiguredCategories ==
    {catalog.categories[i].id :
        i \in {j \in 1..Len(catalog.categories) :
                 catalog.categories[j].group_id = ConfiguredGroupId}}

\* C31: whenever a category group of the ledger has the configured id, the
\* category ids of the eligibility filter are exactly the categories of that
\* group, whatever other groups there are, whatever their names and order:
\* the transactions a fetch keeps are those of these categories.
C31_ConfiguredGroupWins ==
    \A p \in Procs :
        (/\ pc[p] = "fetched"
         /\ \E g \in Range(catalog.groups) : g.id = ConfiguredGroupId)
        => /\ HPIdsNow = ConfiguredCategories
           /\ \A t \in TxIds :
                 t \in AllIds(p) <=>
                     (FetchedFrom(p, t) /\ ledger[t].category \in ConfiguredCategories)

\* C32: a request to the manual trigger gets exactly one response, whichever
\* of the child's close event and the 60-second timer comes first: no second
\* response is written for it, and the dashboard server keeps running.
C32_OneResponse ==
    /\ dashboard.up
    /\ \A p \in Procs :
          /\ dashboard.req[p].responses <= 1
          /\ (dashboard.req[p].closed /\ ~dashboard.req[p].timer)
                => dashboard.req[p].responses = 1

\* C33: a call of log leads to a bounded number of sensor publication
\* attempts: handling what became of a publication (success, another status,
\* a network error, no token) does not go on starting further ones, so the
\* attempts that follow one call of log never reach MaxChain, the number up
\* to which they are followed here.
C33_ChainQuiesces == chain.attempts < MaxChain

Balanced(statistics) ==
    statistics.total_processed = statistics.total_submitted + statistics.total_failed

\* C34: from a state whose statistics satisfy total_processed =
\* total_submitted + total_failed, the equality holds after every run, in
\* the state of every run and in the state the file gives back, and the
\* counts a run returns satisfy processed = submitted + failed.
C34_StatisticsBalanced ==
    /\ Balanced(loadState(file).statistics)
    /\ \A p \in Procs :
          /\ Balanced(st[p].statistics)
          /\ tally[p].processed = tally[p].submitted + tally[p].failed
          /\ pending[p].processed = pending[p].submitted + pending[p].failed
          /\ outcome[p].processed = outcome[p].submitted + outcome[p].failed

\* Two runs after the saved state (1, 1, 0): the first processed t1 and
\* failed, the second processed t1 again and submitted it.
C34_Witness ==
    /\ pc[2] = "exited"
    /\ outcome[1] = CountsOf(1, 0, 1)
    /\ outcome[2] = CountsOf(1, 1, 0)
    /\ CompleteSnapshot(file)
    /\ loadState(file).statistics = [total_processed |-> 3, total_submitted |-> 2,
                                     total_paid |-> 0, total_failed |-> 1]

(***************************************************************************)
(* One run after an earlier one, over every catalog                        *)
(***************************************************************************)
InitGroup ==
    /\ ledger = PriorLedger
    /\ catalog \in CatalogInputs
    /\ env \in [dry : BOOLEAN, batch : {[set |-> FALSE, val |-> 0]}]
    /\ file = WrittenFile(PriorState)
    /\ xanoCalls = [t \in TxIds |-> IF t = "t2" THEN 1 ELSE 0]
    /\ supervisor = SupervisorUp
    /\ reply = NoReply
    /\ dashboard = DashboardUp
    /\ chain = NoChain
    /\ ProcInit

SpecGroup == InitGroup /\ [][NextRun]_vars

\* fetchHPTransactions of run p returned without an HP category to look for.
ReturnedWithoutCategories(p) ==
    /\ HPIdsNow = {}
    /\ "getCategoryGroups" \in ledgerCalls[p]

\* C35: when the HP category group is not found or has no categories, the
\* run calls neither getAccounts nor getTransactions, submits nothing, writes
\* nothing to the ledger or the state file, returns {processed: 0,
\* submitted: 0, failed: 0} with exit code 0, and its state keeps the
\* transactions and statistics it loaded.
C35_NoGroupNoWork ==
    \A p \in Procs : ReturnedWithoutCategories(p) =>
        /\ ledgerCalls[p] \subseteq {"getCategoryGroups", "getCategories"}
        /\ pc[p] \in {"fetched", "finally", "exited"}
        /\ ledger = PriorLedger
        /\ xanoCalls = [t \in TxIds |-> IF t = "t2" THEN 1 ELSE 0]
        /\ file = WrittenFile(PriorState)
        /\ pc[p] \in {"fetched", "finally"} =>
              /\ st[p].transactions = PriorState.transactions
              /\ st[p].statistics = PriorState.statistics
        /\ pc[p] = "finally" => pending[p] = Success(ZeroTally)
        /\ pc[p] = "exited" => outcome[p] = Success(ZeroTally)

\* The run has ended where no group had the configured id or an HP name.
C35_Witness ==
    /\ pc[1] = "exited"
    /\ FindHPCategoryGroup(catalog.groups, ConfiguredGroupId) = <<>>
    /\ ledgerCalls[1] = {"getCategoryGroups"}
    /\ outcome[1] = Success(ZeroTally)

\* The run has ended where the group was found and had no categories.
C35_WitnessNoCategories ==
    /\ pc[1] = "exited"
    /\ ledgerCalls[1] = {"getCategoryGroups", "getCategories"}
    /\ outcome[1] = Success(ZeroTally)

(***************************************************************************)
(* The API server: initialization, retries, /retry-init and /reset-init    *)
(***************************************************************************)
InitApi ==
    /\ ledger = MainLedger
    /\ catalog = MainCatalog
    /\ env = [dry |-> FALSE, batch |-> [set |-> FALSE, val |-> 0]]
    /\ file = NoFile
    /\ xanoCalls = [t \in TxIds |-> 0]
    /\ supervisor = SupervisorUp
    /\ reply = NoReply
    /\ dashboard = DashboardUp
    /\ chain = NoChain
    /\ ProcInit

NextInit ==
    \/ Listen
    \/ ApiInitResolves
    \/ ApiInitRejects
    \/ DownloadResolves
    \/ DownloadRejects
    \/ RetryTimerFires
    \/ RetryInit
    \/ ResetInit

SpecInit == InitApi /\ [][NextInit]_vars

\* The executions of performBackgroundInit that have passed the guard and
\* not yet returned.
InFlight == server.awaitingInit + server.awaitingDownload

\* C36: at most one execution of performBackgroundInit is in flight, under
\* every interleaving of the startup initialization, the retry timer,
\* POST /retry-init and POST /reset-init.
C36_OneInitInFlight == InFlight <= 1

(***************************************************************************)
(* The API server with a data endpoint                                     *)
(***************************************************************************)
NextData ==
    \/ NextInit
    \/ AccountsRequest
    \/ \E ok \in BOOLEAN : AccountsSettles(ok)

SpecData == InitApi /\ [][NextData]_vars

\* What an initialization reads and writes.
InitializationState ==
    <<server.actualInitialized, server.initializationInProgress,
      server.initializationError, server.awaitingInit, server.awaitingDownload,
      server.started, server.timers>>

\* C37: GET /accounts calls the ledger API only if actualInitialized was true
\* when initActual ran; when it was false, in progress, failed or not
\* started, the request is answered 500 with initActual's message and no
\* call is made; and no step of the request starts an initialization or
\* changes what an initialization reads and writes.
C37_CallOnlyWhenInitialized ==
    /\ [](/\ server.accounts.called => server.accounts.checked
          /\ server.accounts.pos = "calling" => server.accounts.called
          /\ (server.accounts.pos = "done" /\ ~server.accounts.checked) =>
                /\ ~server.accounts.called
                /\ server.accounts.status = 500
                /\ server.accounts.error \in {"Initialization in progress",
                                              "Previous initialization failed",
                                              "System not ready"})
    /\ [][server'.accounts # server.accounts =>
             InitializationState' = InitializationState]_vars

\* A request that arrived while the initialization was in progress.
C37_Witness ==
    /\ server.accounts.pos = "done"
    /\ server.accounts.status = 500
    /\ server.accounts.error = "Initialization in progress"

\* A request that arrived after a failed initialization.
C37_WitnessFailed ==
    /\ server.accounts.pos = "done"
    /\ server.accounts.error = "Previous initialization failed"

\* A request that arrived when initialized, and whose call resolved.
C37_WitnessCalled ==
    /\ server.accounts.pos = "done"
    /\ server.accounts.called
    /\ server.accounts.status = 200

(***************************************************************************)
(* The API server with a POST /import request                              *)
(***************************************************************************)
ImportResults == {"rows", "errors", "undefined"}

ImportStep ==
    \/ ImportAttempt
    \/ \E result \in ImportResults : ImportResolves(result)
    \/ ImportRejects
    \/ ImportBackoffElapsed

NextImport ==
    \/ NextInit
    \/ \E wellFormed \in BOOLEAN : ImportRequest(wellFormed)
    \/ ImportStep

SpecImport == InitApi /\ [][NextImport]_vars

\* The event loop runs the handler on: a settled promise is resumed, an
\* elapsed timer fires.
SpecImportFair == SpecImport /\ WF_vars(ImportStep)

\* C38: a POST /import request makes at most 3 attempts, each thrown attempt
\* but the last is followed by one more, nothing follows an attempt that did
\* not throw, one response is sent, the 500 only after the third thrown
\* attempt, and every request is answered.
C38_ImportRetries ==
    /\ [](/\ server.import.tries <= maxRetries
          /\ server.import.attempt <= server.import.tries
          /\ server.import.tries <= server.import.attempt + 1
          /\ server.import.calls <= server.import.tries
          /\ server.import.responses <= 1
          /\ server.import.pos = "done" <=> server.import.responses = 1
          /\ server.import.status = 500 <=>
                (server.import.pos = "done" /\ server.import.attempt = maxRetries)
          /\ server.import.status \in {200, 400} <=>
                (server.import.pos = "done" /\ server.import.attempt < server.import.tries))
    /\ [][server.import.pos = "done" => server'.import = server.import]_vars
    /\ (server.import.pos # "none") ~> (server.import.pos = "done")

\* Two attempts threw and the third was answered 200.
C38_Witness ==
    /\ server.import.pos = "done"
    /\ server.import.status = 200
    /\ server.import.attempt = 2
    /\ server.import.tries = 3

\* Three attempts threw, one of them inside api.importTransactions.
C38_WitnessFailed ==
    /\ server.import.pos = "done"
    /\ server.import.status = 500
    /\ server.import.calls = 1

(***************************************************************************)
(* The API server when /reset-init is not called                           *)
(***************************************************************************)
ApiInitSettles == ApiInitResolves \/ ApiInitRejects
DownloadSettles == DownloadResolves \/ DownloadRejects

NextRetry ==
    \/ Listen
    \/ ApiInitSettles
    \/ DownloadSettles
    \/ RetryTimerFires
    \/ RetryInit
    \/ AccountsRequest
    \/ \E ok \in BOOLEAN : AccountsSettles(ok)

\* The server comes up, api.init settles, the race at line 116 settles
\* within 5 minutes, timers fire; api.init and downloadBudget fail at most
\* MaxFailures times.
SpecRetry ==
    /\ InitApi /\ [][NextRetry]_vars
    /\ WF_vars(Listen)
    /\ WF_vars(ApiInitSettles)
    /\ WF_vars(DownloadSettles)
    /\ WF_vars(RetryTimerFires)

\* C39: every failed initialization leaves a retry timer pending, and when
\* api.init and downloadBudget fail only finitely often and /reset-init is
\* not called, the server reaches actualInitialized = true with
\* initializationInProgress = false.
C39_EventuallyInitialized ==
    /\ [][server'.failures > server.failures =>
             (server'.timers > 0 /\ server'.timers >= server.timers)]_vars
    /\ <>(server.actualInitialized /\ ~server.initializationInProgress)

\* Initialized after every allowed failure and no retry timer left.
C39_Witness ==
    /\ server.actualInitialized
    /\ ~server.initializationInProgress
    /\ server.failures = MaxFailures
    /\ server.timers = 0

====
